---- MODULE Spec2Model ----
(***************************************************************************)
(* Surecast: the workflow execution engine of the site                     *)
(* (packages/site/src/pages/index.tsx: executeWorkflow, retryFromStep,     *)
(* runSteps, switchChain, resetExecutor, saveToEns) driving the snap's RPC *)
(* handlers (packages/snap/src/rpc.ts) and the snap's UI handlers          *)
(* (packages/snap/src/handlers/index.tsx) over the snap state              *)
(* (packages/snap/src/state.ts).                                           *)
(*                                                                         *)
(* Conventions.                                                            *)
(*  - Step indices are the code's 0-based indices; the TLA+ sequences are  *)
(*    1-based, so step i of the code is steps[i + 1].                      *)
(*  - Strings that the code transforms (amounts) are sequences of          *)
(*    one-character strings; null is NoAmount / NoHash / NoMsg / Null.     *)
(*  - An action is the continuation of an async function after one await   *)
(*    up to the handling of its next request: the site code that runs when *)
(*    the previous call returned, followed by the snap handler of the next *)
(*    RPC, or by the issue of the next wallet / quote request.  A snap RPC *)
(*    handler between getState and the cache write of setState runs        *)
(*    without yielding to another request (state.ts:23-58), so it is one   *)
(*    atomic step.  invokeSnap is taken to return the handler's result and *)
(*    to reject with the handler's error, as the try/catch blocks of       *)
(*    runSteps assume.                                                     *)
(***************************************************************************)
EXTENDS Integers, Sequences, FiniteSets, TLC

(***************************************************************************)
(* Bounds of the model.                                                    *)
(***************************************************************************)
MaxSteps == 3
MaxRuns == 2
MaxStarts == 2
MaxEvents == 1
MaxConcSteps == 1
MaxSideSteps == 2

Runs == 1..MaxRuns

(***************************************************************************)
(* Null values.                                                            *)
(***************************************************************************)
Null == [null |-> TRUE]
NoAmount == <<"null">>
NoHash == <<>>
NoMsg == "null"
NoChain == 0
NoStep == 0

(***************************************************************************)
(* Chains and tokens.                                                      *)
(***************************************************************************)
ETHEREUM == 1
ARBITRUM == 42161

\* CHAIN_CONFIGS of the site: the chains the add-network fallback knows.
CHAIN_CONFIGS == {42161, 10, 137, 8453}

\* vaults.ts TOKENS: the symbols listed for a chain
TOKENS(chain) ==
  IF chain = ETHEREUM THEN {"ETH", "USDC", "USDT", "DAI", "WETH"}
  ELSE IF chain = ARBITRUM THEN {"ETH", "USDC", "USDC.e", "WETH"}
  ELSE IF chain \in {10, 8453} THEN {"ETH", "USDC", "WETH"}
  ELSE IF chain = 137 THEN {"MATIC", "USDC", "WETH"}
  ELSE {}

\* decimals of TOKENS[chain][symbol]
TokenDecimals(sym) == IF sym = "USDC" THEN 6 ELSE 18

(***************************************************************************)
(* helpers.ts: parseAmount, on sequences of characters.                    *)
(***************************************************************************)
RECURSIVE IndexOfDot(_, _)
IndexOfDot(s, k) ==
  IF k > Len(s) THEN 0
  ELSE IF s[k] = "." THEN k
  ELSE IndexOfDot(s, k + 1)

\* human.split('.')[0]
SplitFirst(s) ==
  LET d == IndexOfDot(s, 1)
  IN IF d = 0 THEN s ELSE SubSeq(s, 1, d - 1)

\* human.split('.')[1] ?? ''
SplitSecond(s) ==
  LET d == IndexOfDot(s, 1)
  IN IF d = 0 THEN <<>>
     ELSE LET rest == SubSeq(s, d + 1, Len(s))
              e == IndexOfDot(rest, 1)
          IN IF e = 0 THEN rest ELSE SubSeq(rest, 1, e - 1)

\* str.padEnd(n, '0')
PadEndZero(s, n) ==
  IF Len(s) >= n THEN s ELSE s \o [k \in 1..(n - Len(s)) |-> "0"]

\* str.slice(0, n)
SliceTo(s, n) == IF Len(s) <= n THEN s ELSE SubSeq(s, 1, n)

\* str.replace(/^0+/, '')
RECURSIVE StripLeadingZeros(_)
StripLeadingZeros(s) ==
  IF s # <<>> /\ Head(s) = "0" THEN StripLeadingZeros(Tail(s)) ELSE s

parseAmount(human, decimals) ==
  LET intPart == SplitFirst(human)
      fracPart == SliceTo(PadEndZero(SplitSecond(human), decimals), decimals)
      stripped == StripLeadingZeros(intPart \o fracPart)
  IN IF stripped = <<>> THEN <<"0">> ELSE stripped


(***************************************************************************)
(* State.                                                                  *)
(***************************************************************************)
VARIABLES
  currentWorkflow,  \* snap: SnapState.currentWorkflow
  snapExec,         \* snap: SnapState.execution
  preparedTx,       \* snap: SnapState.preparedTx, the single slot
  userNamehash,     \* snap: SnapState.userNamehash
  execStatus,       \* site: React state execStatus
  workflow,         \* site: React state workflow
  execution,        \* site: React state execution
  cancelledRef,     \* site: cancelledRef.current
  runs,             \* site: the activations of executeWorkflow / retryFromStep
  ens,              \* site: the activation of saveToEns
  ui,               \* snap: the activation of a snap UI handler
  clock,            \* Date.now() of startExecution, as a counter
  outstanding,      \* external requests issued and not yet completed
  requested,        \* history: the steps a request was issued for
  sent,             \* history: the transactions handed to eth_sendTransaction
  call              \* one call of a function of services/ens.ts or helpers.ts

\* no function of the ENS service or of the helpers is being followed
NoCall == [op |-> "none"]

snapVars == <<currentWorkflow, snapExec, preparedTx, userNamehash>>
siteVars == <<execStatus, workflow, execution, cancelledRef>>
histVars == <<outstanding, requested, sent>>
vars == <<currentWorkflow, snapExec, preparedTx, userNamehash, execStatus,
          workflow, execution, cancelledRef, runs, ens, ui, clock,
          outstanding, requested, sent, call>>

(***************************************************************************)
(* Workflows (types.ts: WorkflowStep, Workflow).                           *)
(***************************************************************************)
\* A swap step composed with a fixed amount (handleSwapSubmit, useAll = No).
FixedStep(id) ==
  [id |-> id, type |-> "swap", useAllFromPrevious |-> FALSE,
   amount |-> <<"1", ".", "5">>, fromChain |-> ARBITRUM, fromToken |-> "USDC",
   toChain |-> ARBITRUM, toToken |-> "ETH"]

\* A swap step composed with "use all from previous" (useAll = Yes).
ChainedStep(id) ==
  [id |-> id, type |-> "swap", useAllFromPrevious |-> TRUE,
   amount |-> NoAmount, fromChain |-> ETHEREUM, fromToken |-> "ETH",
   toChain |-> ETHEREUM, toToken |-> "USDC"]

\* The workflows the composer builds: the swap form offers the flag only
\* when a step exists already (renderSwapForm, existingStepCount > 0).
ComposedWorkflows ==
  { [id |-> 1, steps |-> st] :
      st \in UNION { { s \in [1..n -> {FixedStep(k) : k \in 1..n} \cup {ChainedStep(k) : k \in 1..n}] :
                         /\ \A k \in 1..n : s[k].id = k
                         /\ s[1].useAllFromPrevious = FALSE } : n \in 1..MaxSteps } }

\* The amounts a quote of step i may return (estimate.toAmount, in base
\* units): 123456 for the first step, and another amount for every step.
DigitChars == <<"0", "1", "2", "3", "4", "5", "6", "7", "8", "9">>

QuoteAmounts(i) == { <<"1", "2", "3", "4", "5", DigitChars[((6 + i) % 10) + 1]>> }

(***************************************************************************)
(* Execution records (types.ts: StepExecution, WorkflowExecution).         *)
(***************************************************************************)
InProgress == {"quoting", "ready", "switching-chain", "confirming"}

NewStepExecution(step) ==
  [stepId |-> step.id, status |-> "pending", txHash |-> NoHash,
   chainId |-> NoChain, error |-> NoMsg, quotedOutput |-> NoAmount]

\* variant: the new record starts at the second step
startExecutionAtOne(wf, now) ==
  [workflowId |-> wf.id, startedAt |-> now, currentStepIndex |-> 1,
   steps |-> [k \in 1..Len(wf.steps) |-> NewStepExecution(wf.steps[k])],
   status |-> "running"]

\* rpc.ts startExecution: the record built from the current workflow
startExecution(wf, now) ==
  [workflowId |-> wf.id, startedAt |-> now, currentStepIndex |-> 0,
   steps |-> [k \in 1..Len(wf.steps) |-> NewStepExecution(wf.steps[k])],
   status |-> "running"]

startExecutionThrows(wf) == wf = Null \/ Len(wf.steps) = 0

HasStep(exec, i) == exec # Null /\ i + 1 \in DOMAIN exec.steps

AllSuccess(steps) == \A k \in DOMAIN steps : steps[k].status = "success"
AnyError(steps) == \E k \in DOMAIN steps : steps[k].status = "error"

\* rpc.ts updateStepStatus
updateStepStatusThrows(exec, stepIndex) == ~HasStep(exec, stepIndex)

\* variant: an error of a step does not make the execution failed
OverallStatusNeverFailed(updatedSteps) ==
  IF AllSuccess(updatedSteps) THEN "completed" ELSE "running"

OverallStatus(updatedSteps) ==
  IF AllSuccess(updatedSteps) THEN "completed"
  ELSE IF AnyError(updatedSteps) THEN "failed"
  ELSE "running"

UpdatedStep(execStep, status, txHash, error) ==
  [execStep EXCEPT !.status = status,
                   !.txHash = IF txHash # NoHash THEN txHash ELSE @,
                   !.error = IF error # NoMsg THEN error ELSE @]

updateStepStatus(exec, stepIndex, status, txHash, error) ==
  LET updatedSteps ==
        [exec.steps EXCEPT ![stepIndex + 1] = UpdatedStep(@, status, txHash, error)]
  IN [exec EXCEPT !.steps = updatedSteps,
                  !.currentStepIndex =
                     IF status = "success" THEN stepIndex + 1 ELSE @,
                  !.status = OverallStatus(updatedSteps)]

\* currentExec.steps.map((s, idx) => idx === i ? F(s) : s) of the site
MapStep(exec, i, F(_)) ==
  [exec EXCEPT !.steps =
     [k \in DOMAIN exec.steps |->
        IF k = i + 1 THEN F(exec.steps[k]) ELSE exec.steps[k]]]

\* variant: the retry restarts at the first step
FindFromStart(steps, k) == 0

\* execution.steps.findIndex((s) => s.status !== 'success'), -1 if none
RECURSIVE FindNonSuccess(_, _)
FindNonSuccess(steps, k) ==
  IF k > Len(steps) THEN -1
  ELSE IF steps[k].status # "success" THEN k - 1
  ELSE FindNonSuccess(steps, k + 1)


(***************************************************************************)
(* Error messages.                                                         *)
(***************************************************************************)
MsgNoWorkflow == "No active workflow."
MsgStepNotFound == "Step not found."
MsgChaining == "Previous step has no quoted output for chaining."
MsgTokenNotFound == "Token not found on chain."
MsgQuoteFailed == "LI.FI quote failed"
MsgRejected == "User rejected the request."
MsgUnknownChain == "Unknown chain ID. Please add it to MetaMask manually."

(***************************************************************************)
(* Activations of executeWorkflow / retryFromStep with their runSteps.     *)
(* pc names the await the activation is suspended at.  cancelled is        *)
(* history: resetExecutor was called while the activation was in progress. *)
(***************************************************************************)
IdleRun ==
  [pc |-> "idle", kind |-> "none", wf |-> Null, exec |-> Null, i |-> 0,
   startFrom |-> 0, txData |-> Null, msg |-> NoMsg, hash |-> NoHash,
   s |-> Null, step |-> Null, rawAmount |-> NoAmount, outcome |-> "none",
   cancelled |-> FALSE, switchError |-> "none", addRequests |-> 0]

\* the locals of a returned activation are dead; the rest is history
Returned(run, outcome) ==
  [run EXCEPT !.pc = "done", !.outcome = outcome, !.wf = Null, !.exec = Null,
              !.txData = Null, !.s = Null, !.step = Null, !.hash = NoHash,
              !.cancelled = FALSE, !.switchError = "none", !.addRequests = 0]

Active(r) == runs[r].pc \notin {"idle", "done"}

\* the history of the activation that used the record before is dropped
Forget(r) ==
  /\ requested' = {x \in requested : x.run # r}
  /\ sent' = {x \in sent : x.run # r}
  /\ outstanding' = outstanding

Request(r, kind) == [run |-> r, kind |-> kind, step |-> runs[r].i]

\* the history keeps the steps each activation issued a request for
Issue(r, kind) ==
  /\ outstanding' = outstanding \cup {Request(r, kind)}
  /\ requested' = requested \cup {[run |-> r, step |-> runs[r].i]}

\* variant: a request that returned stays outstanding
CompleteNothing(r, kind) == outstanding' = outstanding

Complete(r, kind) == outstanding' = outstanding \ {Request(r, kind)}

(***************************************************************************)
(* runSteps, index.tsx:980-1171.                                           *)
(***************************************************************************)
\* The catch blocks of runSteps (1048-1053, 1084-1089, 1126-1131): the
\* error is reported to the snap with updateStepStatus(i, 'error', msg).
FailStep(r, base, msg) ==
  IF updateStepStatusThrows(snapExec, base.i)
  THEN /\ snapExec' = snapExec
       /\ runs' = [runs EXCEPT ![r] = [base EXCEPT !.pc = "threw"]]
  ELSE /\ snapExec' = updateStepStatus(snapExec, base.i, "error", NoHash, msg)
       /\ runs' = [runs EXCEPT ![r] = [base EXCEPT !.pc = "halt", !.msg = msg]]

\* The head of the for loop (991-1014) entered with currentExec = cur and
\* index i, the React state being siteExec / siteStatus: the end of the loop
\* (1161-1168), the cancellation check (992), or the marking of step i as
\* quoting in the site and, by updateStepStatus, in the snap.
IterationTop(r, cur, i, siteExec, siteStatus) ==
  IF i >= Len(runs[r].wf.steps)
  THEN /\ execution' = IF siteExec # Null
                       THEN [siteExec EXCEPT !.status = "completed"]
                       ELSE Null
       /\ execStatus' = "success"
       /\ runs' = [runs EXCEPT ![r] = Returned([runs[r] EXCEPT !.i = i], "completed")]
       /\ snapExec' = snapExec
  ELSE IF cancelledRef
  THEN /\ execution' = siteExec
       /\ execStatus' = siteStatus
       /\ runs' = [runs EXCEPT ![r] = Returned([runs[r] EXCEPT !.i = i], "cancelled")]
       /\ snapExec' = snapExec
  ELSE LET quoting == [MapStep(cur, i, LAMBDA s : [s EXCEPT !.status = "quoting"])
                         EXCEPT !.currentStepIndex = i]
           base == [runs[r] EXCEPT !.exec = quoting, !.i = i]
       IN /\ execution' = quoting
          /\ execStatus' = siteStatus
          /\ IF updateStepStatusThrows(snapExec, i)
             THEN /\ snapExec' = snapExec
                  /\ runs' = [runs EXCEPT ![r] = [base EXCEPT !.pc = "threw"]]
             ELSE /\ snapExec' = updateStepStatus(snapExec, i, "quoting", NoHash, NoMsg)
                  /\ runs' = [runs EXCEPT ![r] = [base EXCEPT !.pc = "quote"]]

\* rpc.ts prepareStepQuote, 117-168: the error it throws before it requests
\* a quote, NoMsg if none.
prepareStepQuoteError(wf, exec, stepIndex) ==
  IF wf = Null THEN MsgNoWorkflow
  ELSE IF stepIndex + 1 \notin DOMAIN wf.steps THEN MsgStepNotFound
  ELSE IF wf.steps[stepIndex + 1].fromToken
            \notin TOKENS(wf.steps[stepIndex + 1].fromChain)
       THEN MsgTokenNotFound
  ELSE IF /\ wf.steps[stepIndex + 1].useAllFromPrevious
          /\ stepIndex > 0
          /\ \/ ~HasStep(exec, stepIndex - 1)
             \/ exec.steps[stepIndex].quotedOutput \in {NoAmount, <<>>}
       THEN MsgChaining
  ELSE NoMsg

\* variant: the chained amount is converted as a human-readable amount
ResolveAmountConverted(step, exec, stepIndex) ==
  parseAmount(IF step.useAllFromPrevious /\ stepIndex > 0
              THEN exec.steps[stepIndex].quotedOutput
              ELSE IF step.amount = NoAmount THEN <<"0">> ELSE step.amount,
              TokenDecimals(step.fromToken))

\* rpc.ts prepareStepQuote, 157-168: the source amount of the quote request
ResolveAmount(step, exec, stepIndex) ==
  IF step.useAllFromPrevious /\ stepIndex > 0
  THEN exec.steps[stepIndex].quotedOutput
  ELSE parseAmount(IF step.amount = NoAmount THEN <<"0">> ELSE step.amount,
                   TokenDecimals(step.fromToken))

\* runSteps 1016-1019 with rpc.ts 117-179: prepareStepQuote up to its quote
\* request, or its error caught by runSteps.
PrepareStepQuoteCall(r) ==
  /\ runs[r].pc = "quote"
  /\ LET i == runs[r].i
         err == prepareStepQuoteError(currentWorkflow, snapExec, i)
     IN IF err # NoMsg
        THEN /\ FailStep(r, runs[r], err)
             /\ UNCHANGED histVars
        ELSE LET step == currentWorkflow.steps[i + 1]
             IN /\ runs' = [runs EXCEPT ![r].pc = "quote_wait",
                                        ![r].s = snapExec,
                                        ![r].step = step,
                                        ![r].rawAmount = ResolveAmount(step, snapExec, i)]
                /\ Issue(r, "quote")
                /\ UNCHANGED <<snapExec, sent>>
  /\ UNCHANGED <<currentWorkflow, preparedTx, userNamehash, siteVars, ens, ui, clock, call>>

\* lifi.ts getSwapQuote 69-87 with rpc.ts 181-183: the prepared transaction
QuoteTx(r, step) ==
  [type |-> "lifi-swap", stepId |-> step.id, chainId |-> step.fromChain,
   data |-> <<"quote", r, runs[r].i>>]

\* rpc.ts 185-200: the execution record written after the quote, from the
\* state s read before the quote request
QuotedExec(s, stepIndex, toAmount) ==
  IF HasStep(s, stepIndex)
  THEN [s EXCEPT !.steps[stepIndex + 1] =
          [@ EXCEPT !.status = "ready", !.quotedOutput = toAmount]]
  ELSE s

\* The quote request returns: lifi.ts 59-62 throws, or rpc.ts 181-202.
QuoteResponse(r) ==
  /\ runs[r].pc = "quote_wait"
  /\ Complete(r, "quote")
  /\ \/ /\ FailStep(r, runs[r], MsgQuoteFailed)
        /\ UNCHANGED preparedTx
     \/ \E toAmount \in QuoteAmounts(runs[r].i) :
          /\ preparedTx' = QuoteTx(r, runs[r].step)
          /\ snapExec' = IF runs[r].s # Null
                         THEN QuotedExec(runs[r].s, runs[r].i, toAmount)
                         ELSE snapExec
          /\ runs' = [runs EXCEPT ![r].pc = "quoted"]
  /\ UNCHANGED <<currentWorkflow, userNamehash, siteVars, ens, ui, clock, call, requested, sent>>

\* runSteps 1100-1111: the step is marked confirming in the site and the snap
MarkConfirming(r, base) ==
  LET i == base.i
      cur == MapStep(base.exec, i, LAMBDA s : [s EXCEPT !.status = "confirming"])
      b2 == [base EXCEPT !.exec = cur]
  IN /\ execution' = cur
     /\ IF updateStepStatusThrows(snapExec, i)
        THEN /\ snapExec' = snapExec
             /\ runs' = [runs EXCEPT ![r] = [b2 EXCEPT !.pc = "threw"]]
        ELSE /\ snapExec' = updateStepStatus(snapExec, i, "confirming", NoHash, NoMsg)
             /\ runs' = [runs EXCEPT ![r] = [b2 EXCEPT !.pc = "send"]]

\* runSteps 1063-1066 with rpc.ts 75-78: getPreparedTransaction
GetPreparedTx(r) ==
  /\ runs[r].pc = "quoted"
  /\ runs' = [runs EXCEPT ![r].pc = "got", ![r].txData = preparedTx]
  /\ UNCHANGED <<snapVars, siteVars, ens, ui, clock, call, histVars>>

\* runSteps 1068-1080: the step is marked switching-chain in the site and
\* in the snap (or, for a transaction that names no chain, confirming:
\* 1100-1111); a null transaction makes txData.chainId a TypeError.
MarkSwitching(r) ==
  /\ runs[r].pc = "got"
  /\ LET txData == runs[r].txData
         i == runs[r].i
     IN IF txData = Null
        THEN /\ runs' = [runs EXCEPT ![r].pc = "threw"]
             /\ UNCHANGED <<snapExec, execution>>
        ELSE IF txData.chainId # NoChain
        THEN LET cur == MapStep(runs[r].exec, i,
                          LAMBDA s : [s EXCEPT !.status = "switching-chain",
                                               !.chainId = txData.chainId])
                 base == [runs[r] EXCEPT !.exec = cur]
             IN /\ execution' = cur
                /\ IF updateStepStatusThrows(snapExec, i)
                   THEN /\ snapExec' = snapExec
                        /\ runs' = [runs EXCEPT ![r] = [base EXCEPT !.pc = "threw"]]
                   ELSE /\ snapExec' = updateStepStatus(snapExec, i, "switching-chain", NoHash, NoMsg)
                        /\ runs' = [runs EXCEPT ![r] = [base EXCEPT !.pc = "switch"]]
        ELSE MarkConfirming(r, runs[r])
  /\ UNCHANGED <<currentWorkflow, preparedTx, userNamehash, execStatus, workflow,
                 cancelledRef, ens, ui, clock, call, histVars>>

\* switchChain 946-954: wallet_switchEthereumChain is requested
SwitchRequest(r) ==
  /\ runs[r].pc = "switch"
  /\ runs' = [runs EXCEPT ![r].pc = "switch_wait"]
  /\ Issue(r, "switch")
  /\ UNCHANGED <<snapVars, siteVars, ens, ui, clock, call, sent>>

\* variant: the network is added after any failure of the switch
AddsChainAnyFailure(res, chainId) == res # "ok" /\ chainId \in CHAIN_CONFIGS

\* switchChain 956-958: the error has the code 4902 (res = "unknown") and
\* the chain has a configuration
AddsChain(res, chainId) == res = "unknown" /\ chainId \in CHAIN_CONFIGS

\* switchChain 955-971 and runSteps 1082-1098: the switch request returns.
\* switchError and addRequests are history: the failure of the switch of
\* this step and the add requests made for it, kept while switchChain runs
\* and while its error is handled.
SwitchResponse(r) ==
  /\ runs[r].pc = "switch_wait"
  /\ \E res \in {"ok", "rejected", "unknown"} :
       LET failed == [runs[r] EXCEPT !.switchError = res]
       IN IF res = "ok"
          THEN /\ Complete(r, "switch")
               /\ MarkConfirming(r, runs[r])
               /\ UNCHANGED requested
          ELSE IF AddsChain(res, runs[r].txData.chainId)
          THEN /\ outstanding' = (outstanding \ {Request(r, "switch")})
                                   \cup {Request(r, "add")}
               /\ requested' = requested
               /\ runs' = [runs EXCEPT ![r] = [failed EXCEPT !.pc = "add_wait",
                                                             !.addRequests = @ + 1]]
               /\ UNCHANGED <<snapExec, execution>>
          ELSE /\ Complete(r, "switch")
               /\ FailStep(r, failed,
                           IF res = "unknown" THEN MsgUnknownChain ELSE MsgRejected)
               /\ UNCHANGED <<execution, requested>>
  /\ UNCHANGED <<currentWorkflow, preparedTx, userNamehash, execStatus, workflow,
                 cancelledRef, ens, ui, clock, call, sent>>

\* switchChain 959-962: wallet_addEthereumChain returns
AddChainResponse(r) ==
  /\ runs[r].pc = "add_wait"
  /\ Complete(r, "add")
  /\ \/ MarkConfirming(r, [runs[r] EXCEPT !.switchError = "none", !.addRequests = 0])
     \/ /\ FailStep(r, runs[r], MsgRejected)
        /\ UNCHANGED execution
  /\ UNCHANGED <<currentWorkflow, preparedTx, userNamehash, execStatus, workflow,
                 cancelledRef, ens, ui, clock, call, requested, sent>>

\* runSteps 1113-1125: eth_sendTransaction is requested with txData
SendRequest(r) ==
  /\ runs[r].pc = "send"
  /\ runs' = [runs EXCEPT ![r].pc = "send_wait"]
  /\ Issue(r, "send")
  /\ sent' = sent \cup
       {[by |-> "runSteps", run |-> r, step |-> runs[r].i,
         stepId |-> runs[r].wf.steps[runs[r].i + 1].id, tx |-> runs[r].txData,
         n |-> Cardinality({x \in sent : x.run = r /\ x.step = runs[r].i}) + 1,
         hashBefore |-> IF HasStep(snapExec, runs[r].i)
                        THEN snapExec.steps[runs[r].i + 1].txHash ELSE NoHash]}
  /\ UNCHANGED <<snapVars, siteVars, ens, ui, clock, call>>

\* the hash eth_sendTransaction returns: distinct for the submissions of
\* distinct activations, steps and execution records
TxHash(r, i) ==
  <<"0x", r, i, IF runs[r].exec # Null THEN runs[r].exec.startedAt ELSE 0>>

\* variant: a failed submission is requested again
SendResponseResubmit(r) ==
  /\ runs[r].pc = "send_wait"
  /\ Complete(r, "send")
  /\ runs' = [runs EXCEPT ![r].pc = "send"]
  /\ UNCHANGED <<snapVars, siteVars, ens, ui, clock, call, requested, sent>>

\* runSteps 1126-1145: eth_sendTransaction returns
SendResponse(r) ==
  /\ runs[r].pc = "send_wait"
  /\ Complete(r, "send")
  /\ \/ FailStep(r, runs[r], MsgRejected)
     \/ LET hash == TxHash(r, runs[r].i)
            base == [runs[r] EXCEPT !.hash = hash]
        IN IF updateStepStatusThrows(snapExec, runs[r].i)
           THEN /\ snapExec' = snapExec
                /\ runs' = [runs EXCEPT ![r] = [base EXCEPT !.pc = "threw"]]
           ELSE /\ snapExec' = updateStepStatus(snapExec, runs[r].i, "success", hash, NoMsg)
                /\ runs' = [runs EXCEPT ![r] = [base EXCEPT !.pc = "clear"]]
  /\ UNCHANGED <<currentWorkflow, preparedTx, userNamehash, siteVars, ens, ui,
                 clock, call, requested, sent>>

\* variant: the slot is left as it is after a successful submission
ClearPreparedTxKeep(r) ==
  /\ runs[r].pc = "clear"
  /\ runs' = [runs EXCEPT ![r].pc = "succeeded"]
  /\ UNCHANGED <<snapVars, siteVars, ens, ui, clock, call, histVars>>

\* runSteps 1146 with rpc.ts 80-83: clearPreparedTransaction
ClearPreparedTx(r) ==
  /\ runs[r].pc = "clear"
  /\ preparedTx' = Null
  /\ runs' = [runs EXCEPT ![r].pc = "succeeded"]
  /\ UNCHANGED <<currentWorkflow, snapExec, userNamehash, siteVars, ens, ui,
                 clock, call, histVars>>

\* runSteps 1148-1158, then the next iteration of the loop
StepSucceeded(r) ==
  /\ runs[r].pc = "succeeded"
  /\ LET i == runs[r].i
         cur == [MapStep(runs[r].exec, i,
                    LAMBDA s : [s EXCEPT !.status = "success",
                                         !.txHash = runs[r].hash,
                                         !.chainId = runs[r].txData.chainId])
                   EXCEPT !.currentStepIndex = i + 1]
     IN IterationTop(r, cur, i + 1, cur, execStatus)
  /\ UNCHANGED <<currentWorkflow, preparedTx, userNamehash, workflow, cancelledRef,
                 ens, ui, clock, call, histVars>>

\* variant: after a failure the loop goes on with the next step
HaltContinue(r) ==
  /\ runs[r].pc = "halt"
  /\ LET cur == MapStep(runs[r].exec, runs[r].i,
                    LAMBDA s : [s EXCEPT !.status = "error", !.error = runs[r].msg])
     IN IterationTop(r, cur, runs[r].i + 1, cur, execStatus)
  /\ UNCHANGED <<currentWorkflow, preparedTx, userNamehash, workflow, cancelledRef,
                 ens, ui, clock, call, histVars>>

\* runSteps 1054-1060, 1090-1096, 1132-1138: the failure is shown and the
\* run returns
Halt(r) ==
  /\ runs[r].pc = "halt"
  /\ execution' =
       [MapStep(runs[r].exec, runs[r].i,
           LAMBDA s : [s EXCEPT !.status = "error", !.error = runs[r].msg])
          EXCEPT !.status = "failed"]
  /\ execStatus' = "paused"
  /\ runs' = [runs EXCEPT ![r] = Returned(runs[r], "halted")]
  /\ UNCHANGED <<snapVars, workflow, cancelledRef, ens, ui, clock, call, histVars>>

\* executeWorkflow 1225-1231, retryFromStep 1271-1276: an error that runSteps
\* does not catch
RunThrew(r) ==
  /\ runs[r].pc = "threw"
  /\ execStatus' = "error"
  /\ runs' = [runs EXCEPT ![r] = Returned(runs[r], "threw")]
  /\ UNCHANGED <<snapVars, workflow, execution, cancelledRef, ens, ui, clock, call, histVars>>


(***************************************************************************)
(* executeWorkflow, index.tsx:1177-1232.                                   *)
(***************************************************************************)
\* The Execute button, rendered while execStatus is idle (1695-1710):
\* 1177-1185, up to the request of the accounts.
ExecuteWorkflow(r) ==
  /\ execStatus = "idle"
  /\ ~Active(r)
  /\ clock + Cardinality({q \in Runs : runs[q].pc \in {"accounts", "loaded"}
                                         /\ runs[q].kind = "execute"}) <= MaxStarts
  /\ cancelledRef' = FALSE
  /\ runs' = [runs EXCEPT ![r] = [IdleRun EXCEPT !.pc = "accounts", !.kind = "execute"]]
  /\ Forget(r)
  /\ UNCHANGED <<snapVars, execStatus, workflow, execution, ens, ui, clock, call>>

\* 1187-1204: the accounts are back; setUserAddress, getCurrentWorkflow
ExLoadWorkflow(r) ==
  /\ runs[r].pc = "accounts"
  /\ runs[r].kind = "execute"
  /\ \E hasAccount \in BOOLEAN :
       IF hasAccount
       THEN /\ execStatus' = "loading-workflow"
            /\ runs' = [runs EXCEPT ![r].pc = "loaded", ![r].wf = currentWorkflow]
       ELSE /\ execStatus' = "error"
            /\ runs' = [runs EXCEPT ![r] = Returned(runs[r], "noaccount")]
  /\ UNCHANGED <<snapVars, workflow, execution, cancelledRef, ens, ui, clock, call, histVars>>

\* 1206-1218 with rpc.ts 85-110: startExecution
ExStartExecution(r) ==
  /\ runs[r].pc = "loaded"
  /\ LET wf == runs[r].wf
     IN IF wf = Null \/ Len(wf.steps) = 0
        THEN /\ execStatus' = "error"
             /\ runs' = [runs EXCEPT ![r] = Returned(runs[r], "noworkflow")]
             /\ UNCHANGED <<workflow, snapExec, clock, call>>
        ELSE /\ workflow' = wf
             /\ execStatus' = execStatus
             /\ IF startExecutionThrows(currentWorkflow)
                THEN /\ runs' = [runs EXCEPT ![r].pc = "threw"]
                     /\ UNCHANGED <<snapExec, clock, call>>
                ELSE /\ snapExec' = startExecution(currentWorkflow, clock)
                     /\ clock' = clock + 1
                     /\ call' = call
                     /\ runs' = [runs EXCEPT ![r].pc = "started",
                                             ![r].exec = startExecution(currentWorkflow, clock)]
  /\ UNCHANGED <<currentWorkflow, preparedTx, userNamehash, execution, cancelledRef,
                 ens, ui, histVars>>

\* 1220-1224: the record is shown and runSteps(wf, exec, 0) entered
AfterStart(r) ==
  /\ runs[r].pc = "started"
  /\ IterationTop(r, runs[r].exec, 0, runs[r].exec, "executing")
  /\ UNCHANGED <<currentWorkflow, preparedTx, userNamehash, workflow, cancelledRef,
                 ens, ui, clock, call, histVars>>

(***************************************************************************)
(* retryFromStep, index.tsx:1238-1277.                                     *)
(***************************************************************************)
\* The Retry button, rendered while execStatus is paused (1731-1739):
\* 1238-1250, up to the request of the accounts.
RetryFromStep(r) ==
  /\ execStatus = "paused"
  /\ workflow # Null
  /\ execution # Null
  /\ ~Active(r)
  /\ cancelledRef' = FALSE
  /\ LET failedIdx == FindNonSuccess(execution.steps, 1)
     IN runs' = IF failedIdx = -1
                THEN [runs EXCEPT ![r] = Returned([IdleRun EXCEPT !.kind = "retry"], "nothing")]
                ELSE [runs EXCEPT ![r] = [IdleRun EXCEPT !.pc = "accounts",
                                                         !.kind = "retry",
                                                         !.wf = workflow,
                                                         !.exec = execution,
                                                         !.i = failedIdx,
                                                         !.startFrom = failedIdx]]
  /\ Forget(r)
  /\ UNCHANGED <<snapVars, execStatus, workflow, execution, ens, ui, clock, call>>

\* variant: the retry marks the failed step quoting without a reset
RtResetStepQuoting(r) ==
  /\ runs[r].pc = "accounts"
  /\ runs[r].kind = "retry"
  /\ ~updateStepStatusThrows(snapExec, runs[r].i)
  /\ snapExec' = updateStepStatus(snapExec, runs[r].i, "quoting", NoHash, NoMsg)
  /\ runs' = [runs EXCEPT ![r].pc = "reset"]
  /\ UNCHANGED <<currentWorkflow, preparedTx, userNamehash, siteVars, ens, ui,
                 clock, call, histVars>>

\* 1251-1257: the accounts are back; the failed step is reset in the snap
RtResetStep(r) ==
  /\ runs[r].pc = "accounts"
  /\ runs[r].kind = "retry"
  /\ \E hasAccount \in BOOLEAN :
       IF ~hasAccount
       THEN /\ runs' = [runs EXCEPT ![r] = Returned(runs[r], "noaccount")]
            /\ UNCHANGED snapExec
       ELSE IF updateStepStatusThrows(snapExec, runs[r].i)
       THEN /\ runs' = [runs EXCEPT ![r].pc = "threw"]
            /\ UNCHANGED snapExec
       ELSE /\ snapExec' = updateStepStatus(snapExec, runs[r].i, "pending", NoHash, NoMsg)
            /\ runs' = [runs EXCEPT ![r].pc = "reset"]
  /\ UNCHANGED <<currentWorkflow, preparedTx, userNamehash, siteVars, ens, ui,
                 clock, call, histVars>>

\* variant: the retry resets every step
ResetExecAll(exec, failedIdx) ==
  [exec EXCEPT !.status = "running",
               !.steps = [k \in DOMAIN exec.steps |->
                            [exec.steps[k] EXCEPT !.status = "pending",
                                                  !.error = NoMsg,
                                                  !.txHash = NoHash]]]

\* 1259-1266: the record the retry shows and runs on
ResetExec(exec, failedIdx) ==
  [exec EXCEPT !.status = "running",
               !.steps = [k \in DOMAIN exec.steps |->
                            IF k - 1 >= failedIdx
                            THEN [exec.steps[k] EXCEPT !.status = "pending",
                                                       !.error = NoMsg,
                                                       !.txHash = NoHash]
                            ELSE exec.steps[k]]]

\* 1259-1270: runSteps(workflow, resetExec, failedIdx) is entered
AfterReset(r) ==
  /\ runs[r].pc = "reset"
  /\ LET resetExec == ResetExec(runs[r].exec, runs[r].startFrom)
     IN IterationTop(r, resetExec, runs[r].startFrom, resetExec, "executing")
  /\ UNCHANGED <<currentWorkflow, preparedTx, userNamehash, workflow, cancelledRef,
                 ens, ui, clock, call, histVars>>

(***************************************************************************)
(* resetExecutor, index.tsx:1552-1560: the Cancel / Reset / Execute        *)
(* Another buttons, rendered while execStatus is paused, success or error  *)
(* (1731-1771).                                                            *)
(***************************************************************************)
ResetExecutor ==
  /\ execStatus \in {"paused", "success", "error"}
  /\ cancelledRef' = TRUE
  /\ execStatus' = "idle"
  /\ workflow' = Null
  /\ execution' = Null
  /\ ens' = [ens EXCEPT !.sync = "start"]
  /\ runs' = [q \in Runs |-> IF Active(q) THEN [runs[q] EXCEPT !.cancelled = TRUE]
                                           ELSE runs[q]]
  /\ UNCHANGED <<snapVars, ui, clock, call, histVars>>

(***************************************************************************)
(* rpc.ts deleteStep, 251-263.                                             *)
(***************************************************************************)
deleteStep(wf, stepId) ==
  [wf EXCEPT !.steps = SelectSeq(wf.steps, LAMBDA step : step.id # stepId)]

\* the first step of the current workflow is deleted while the workflow is
\* composed, before its first execution
DeleteStep ==
  /\ snapExec = Null
  /\ \A q \in Runs : runs[q].pc = "idle"
  /\ currentWorkflow # Null
  /\ Len(currentWorkflow.steps) > 0
  /\ currentWorkflow' = deleteStep(currentWorkflow, currentWorkflow.steps[1].id)
  /\ UNCHANGED <<snapExec, preparedTx, userNamehash, siteVars, runs, ens, ui,
                 clock, call, histVars>>


(***************************************************************************)
(* The prepared transactions that are not a step's quote.                  *)
(***************************************************************************)
\* rpc.ts 311-320, handlers/index.tsx 519-528: the multicall
EnsWriteTx ==
  [type |-> "ens-write", stepId |-> NoStep, chainId |-> ETHEREUM,
   data |-> <<"multicall">>]

\* handlers/index.tsx 460-469: the request the site is to complete
EnsSaveRequestTx ==
  [type |-> "ens-save-request", stepId |-> NoStep, chainId |-> ETHEREUM,
   data |-> <<>>]

\* handlers/index.tsx 249-263: quote.tx of the first step, without stepId
UiQuoteTx(step) ==
  [type |-> "lifi-swap", stepId |-> NoStep, chainId |-> step.fromChain,
   data |-> <<"quote", 0, 0>>]

\* rpc.ts prepareEnsSave, 273-277
prepareEnsSaveThrows(wf) == wf = Null \/ Len(wf.steps) = 0

(***************************************************************************)
(* The site's ENS state: the activation of saveToEns or of                 *)
(* confirmPendingEnsTx (pc, via, txData), the activation of syncWithSnap   *)
(* (sync), ensName and pendingEnsTx; hasEns tells whether the account has  *)
(* an ENS name for the lookups to find.  The page starts with the          *)
(* syncWithSnap of its mount effect (938-940).                             *)
(***************************************************************************)
IdleEns ==
  [pc |-> "idle", via |-> "none", txData |-> Null, count |-> 0,
   sync |-> "start", hasEns |-> FALSE, ensName |-> FALSE, pendingEnsTx |-> Null]

\* Besides the run, one activity is followed at a time: a save, a refresh
\* or a handler of the snap's UI begins when none of them is in progress;
\* and the saves and the handlers of the snap's UI the user starts are
\* counted, at most MaxEvents of them.
Quiet == ui.pc = "idle" /\ ens.pc = "idle" /\ ens.sync \in {"idle", "start"}

\* syncWithSnap 767-844: the accounts and the ENS name are looked up and
\* setUserAddress (rpc.ts 36-49) stores the namehash when a name was found
SyncSetUser ==
  /\ ens.sync = "start"
  /\ Quiet
  /\ userNamehash' = IF ens.hasEns THEN "node" ELSE userNamehash
  /\ ens' = [ens EXCEPT !.sync = "check", !.ensName = @ \/ ens.hasEns]
  /\ UNCHANGED <<currentWorkflow, snapExec, preparedTx, siteVars, runs, ui,
                 clock, call, histVars>>

\* syncWithSnap 876-933: the slot is read; a save request is completed with
\* prepareEnsSave (rpc.ts 265-323) when a name is known, an ens-write
\* transaction is kept for the confirmation
SyncCheckPending ==
  /\ ens.sync = "check"
  /\ LET pendingTx == preparedTx
     IN IF pendingTx = Null \/ pendingTx.type \notin {"ens-save-request", "ens-write"}
        THEN /\ ens' = [ens EXCEPT !.sync = "idle"]
             /\ UNCHANGED preparedTx
        ELSE IF pendingTx.type = "ens-write"
        THEN /\ ens' = [ens EXCEPT !.sync = "idle", !.pendingEnsTx = pendingTx]
             /\ UNCHANGED preparedTx
        ELSE IF ens.ensName /\ ~prepareEnsSaveThrows(currentWorkflow)
        THEN /\ preparedTx' = EnsWriteTx
             /\ ens' = [ens EXCEPT !.sync = "reread"]
        ELSE /\ ens' = [ens EXCEPT !.sync = "idle"]
             /\ UNCHANGED preparedTx
  /\ UNCHANGED <<currentWorkflow, snapExec, userNamehash, siteVars, runs, ui,
                 clock, call, histVars>>

\* syncWithSnap 917-924: the slot is read again, and what it holds is kept
\* for the confirmation
SyncReread ==
  /\ ens.sync = "reread"
  /\ ens' = [ens EXCEPT !.sync = "idle",
                        !.pendingEnsTx = IF preparedTx # Null THEN preparedTx ELSE @]
  /\ UNCHANGED <<snapVars, siteVars, runs, ui, clock, call, histVars>>

\* saveToEns 1283-1320: the Save button, with a name known; the accounts
\* and the manifest are read and prepareEnsSave writes the slot
SaveToEns ==
  /\ Quiet
  /\ ens.ensName
  /\ ens.count + ui.count < MaxEvents
  /\ IF prepareEnsSaveThrows(currentWorkflow)
     THEN /\ ens' = [ens EXCEPT !.count = @ + 1]
          /\ UNCHANGED preparedTx
     ELSE /\ preparedTx' = EnsWriteTx
          /\ ens' = [ens EXCEPT !.pc = "prepared", !.via = "saveToEns",
                                !.count = @ + 1]
  /\ UNCHANGED <<currentWorkflow, snapExec, userNamehash, siteVars, runs, ui,
                 clock, call, histVars>>

\* saveToEns 1322-1325 with rpc.ts 75-78: getPreparedTransaction
EnsGetPreparedTx ==
  /\ ens.pc = "prepared"
  /\ ens' = [ens EXCEPT !.pc = "switch", !.txData = preparedTx]
  /\ UNCHANGED <<snapVars, siteVars, runs, ui, clock, call, histVars>>

\* confirmPendingEnsTx 1365-1378: the Confirm button, with a pending
\* transaction; the accounts are read and the switch to mainnet requested
ConfirmPendingEnsTx ==
  /\ Quiet
  /\ ens.pendingEnsTx # Null
  /\ ens' = [ens EXCEPT !.pc = "switch", !.via = "confirmPendingEnsTx",
                        !.txData = ens.pendingEnsTx]
  /\ UNCHANGED <<snapVars, siteVars, runs, ui, clock, call, histVars>>

\* saveToEns 1327-1343, confirmPendingEnsTx 1378-1392: switchChain(1)
\* returns and eth_sendTransaction is requested with txData; a failed
\* switch, or a null txData, ends the save in its catch block
EnsSendRequest ==
  /\ ens.pc = "switch"
  /\ \E switched \in BOOLEAN :
       IF switched /\ ens.txData # Null
       THEN /\ ens' = [ens EXCEPT !.pc = "send_wait"]
            /\ sent' = sent \cup
                 {[by |-> ens.via, run |-> 0, step |-> 0, stepId |-> NoStep,
                   tx |-> ens.txData,
                   n |-> 1, hashBefore |-> NoHash]}
       ELSE /\ ens' = [ens EXCEPT !.pc = "idle", !.via = "none", !.txData = Null]
            /\ UNCHANGED sent
  /\ UNCHANGED <<snapVars, siteVars, runs, ui, clock, call, outstanding, requested>>

\* saveToEns 1345-1358, confirmPendingEnsTx 1394-1402: the submission
\* returns; after a success clearPreparedTransaction (rpc.ts 80-83)
EnsSendResponse ==
  /\ ens.pc = "send_wait"
  /\ \E ok \in BOOLEAN :
       /\ preparedTx' = IF ok THEN Null ELSE preparedTx
       /\ ens' = [ens EXCEPT !.pc = "idle", !.via = "none", !.txData = Null,
                             !.pendingEnsTx =
                                IF ok /\ ens.via = "confirmPendingEnsTx" THEN Null ELSE @]
  /\ UNCHANGED <<currentWorkflow, snapExec, userNamehash, siteVars, runs, ui,
                 clock, call, histVars>>

(***************************************************************************)
(* The snap's UI handlers, handlers/index.tsx: they work on the state      *)
(* their caller read, and write with writeState(state, ...).               *)
(***************************************************************************)
IdleUi == [pc |-> "idle", state |-> Null, count |-> 0]

\* the SnapState a handler is given
SnapState ==
  [currentWorkflow |-> currentWorkflow, execution |-> snapExec,
   preparedTx |-> preparedTx, userNamehash |-> userNamehash]

\* state.ts writeState, 36-47: the cache becomes {...current, preparedTx}
writeState(current, tx) ==
  /\ currentWorkflow' = current.currentWorkflow
  /\ snapExec' = current.execution
  /\ userNamehash' = current.userNamehash
  /\ preparedTx' = tx

\* handleGetQuote 172-257: the quote of the first step is requested
UiGetQuote ==
  /\ Quiet
  /\ ens.count + ui.count < MaxEvents
  /\ currentWorkflow # Null
  /\ Len(currentWorkflow.steps) > 0
  /\ ui' = [pc |-> "quote_wait", state |-> SnapState, count |-> ui.count + 1]
  /\ UNCHANGED <<snapVars, siteVars, runs, ens, clock, call, histVars>>

\* handleGetQuote 259-321: the quote returns; the transaction of a
\* one-step workflow is stored
UiGetQuoteResponse ==
  /\ ui.pc = "quote_wait"
  /\ \E ok \in BOOLEAN :
       IF ok /\ Len(ui.state.currentWorkflow.steps) = 1
       THEN writeState(ui.state, UiQuoteTx(ui.state.currentWorkflow.steps[1]))
       ELSE UNCHANGED snapVars
  /\ ui' = [ui EXCEPT !.pc = "idle", !.state = Null]
  /\ UNCHANGED <<siteVars, runs, ens, clock, call, histVars>>

\* handleSaveToEns 441-484 and 486-498: without a namehash the save request
\* is stored; with one, the manifest is read first
UiSaveToEns ==
  /\ Quiet
  /\ ens.count + ui.count < MaxEvents
  /\ currentWorkflow # Null
  /\ Len(currentWorkflow.steps) > 0
  /\ IF userNamehash = ""
     THEN /\ writeState(SnapState, EnsSaveRequestTx)
          /\ ui' = [ui EXCEPT !.count = @ + 1]
     ELSE /\ ui' = [pc |-> "read_wait", state |-> SnapState, count |-> ui.count + 1]
          /\ UNCHANGED snapVars
  /\ UNCHANGED <<siteVars, runs, ens, clock, call, histVars>>

\* handleSaveToEns 499-528: the manifest read returns and the multicall
\* is stored
UiSaveToEnsResponse ==
  /\ ui.pc = "read_wait"
  /\ writeState(ui.state, EnsWriteTx)
  /\ ui' = [ui EXCEPT !.pc = "idle", !.state = Null]
  /\ UNCHANGED <<siteVars, runs, ens, clock, call, histVars>>


(***************************************************************************)
(* The engine with one run at a time: section 5 of the design assumes at   *)
(* most one active run, so here a button starts a run only when no         *)
(* activation of executeWorkflow or retryFromStep is in progress.          *)
(* resetExecutor is not a run and stays enabled wherever its button is     *)
(* rendered.                                                               *)
(***************************************************************************)
NoActiveRun == \A q \in Runs : ~Active(q)

Init ==
  /\ currentWorkflow \in ComposedWorkflows
  /\ snapExec = Null
  /\ preparedTx = Null
  /\ userNamehash = ""
  /\ execStatus = "idle"
  /\ workflow = Null
  /\ execution = Null
  /\ cancelledRef = FALSE
  /\ runs = [r \in Runs |-> IdleRun]
  /\ ens \in {[IdleEns EXCEPT !.hasEns = b] : b \in BOOLEAN}
  /\ ui = IdleUi
  /\ clock = 1
  /\ call = NoCall
  /\ outstanding = {}
  /\ requested = {}
  /\ sent = {}

\* every run takes the first activation record, the one before having
\* returned
OneExecuteWorkflow(r) == NoActiveRun /\ r = 1 /\ ExecuteWorkflow(r)

OneRetryFromStep(r) == NoActiveRun /\ r = 1 /\ RetryFromStep(r)

RunStep(r) ==
  \/ ExLoadWorkflow(r)
  \/ ExStartExecution(r)
  \/ AfterStart(r)
  \/ RtResetStep(r)
  \/ AfterReset(r)
  \/ PrepareStepQuoteCall(r)
  \/ QuoteResponse(r)
  \/ GetPreparedTx(r)
  \/ MarkSwitching(r)
  \/ SwitchRequest(r)
  \/ SwitchResponse(r)
  \/ AddChainResponse(r)
  \/ SendRequest(r)
  \/ SendResponse(r)
  \/ ClearPreparedTx(r)
  \/ StepSucceeded(r)
  \/ Halt(r)

NextOneRun ==
  \/ DeleteStep
  \/ ResetExecutor
  \/ \E r \in Runs : OneExecuteWorkflow(r) \/ OneRetryFromStep(r) \/ RunStep(r)

\* the engine alone: the account has no ENS name
InitOneRun == Init /\ ~ens.hasEns

SpecOneRun == InitOneRun /\ [][NextOneRun]_vars

(***************************************************************************)
(* The engine as its buttons permit: a click starts a run whenever its     *)
(* button is rendered, whether or not another activation is in progress.   *)
(* Every click takes a new activation record.                              *)
(***************************************************************************)
NewRun(r) ==
  /\ runs[r].pc = "idle"
  /\ \A q \in Runs : q < r => runs[q].pc # "idle"

AnyExecuteWorkflow(r) == NewRun(r) /\ ExecuteWorkflow(r)

AnyRetryFromStep(r) == NewRun(r) /\ RetryFromStep(r)

InitRuns == InitOneRun /\ Len(currentWorkflow.steps) <= MaxConcSteps

NextRuns ==
  \/ DeleteStep
  \/ ResetExecutor
  \/ \E r \in Runs :
       AnyExecuteWorkflow(r) \/ AnyRetryFromStep(r) \/ RunStep(r) \/ RunThrew(r)

SpecRuns == InitRuns /\ [][NextRuns]_vars

(***************************************************************************)
(* The engine, one run at a time, with the other users of the snap state:  *)
(* the site's syncWithSnap, saveToEns and confirmPendingEnsTx and the      *)
(* snap's UI handlers.                                                     *)
(***************************************************************************)
NextExecuteWorkflow(r) == NoActiveRun /\ NewRun(r) /\ ExecuteWorkflow(r)

NextRetryFromStep(r) == NoActiveRun /\ NewRun(r) /\ RetryFromStep(r)

Next ==
  \/ DeleteStep
  \/ ResetExecutor
  \/ \E r \in Runs :
       NextExecuteWorkflow(r) \/ NextRetryFromStep(r) \/ RunStep(r) \/ RunThrew(r)
  \/ SyncSetUser \/ SyncCheckPending \/ SyncReread
  \/ SaveToEns \/ EnsGetPreparedTx \/ ConfirmPendingEnsTx
  \/ EnsSendRequest \/ EnsSendResponse
  \/ UiGetQuote \/ UiGetQuoteResponse \/ UiSaveToEns \/ UiSaveToEnsResponse

InitAll == Init /\ Len(currentWorkflow.steps) <= MaxSideSteps

Spec == InitAll /\ [][Next]_vars

(***************************************************************************)
(* Properties of the engine with one run at a time.                        *)
(***************************************************************************)
StepsOf(exec) == IF exec = Null THEN {} ELSE 0..(Len(exec.steps) - 1)

StatusOf(exec, j) == exec.steps[j + 1].status

\* the first index of exec whose step is not success, -1 if there is none
FirstNonSuccess(exec) ==
  LET open == {j \in StepsOf(exec) : StatusOf(exec, j) # "success"}
  IN IF open = {} THEN -1 ELSE CHOOSE j \in open : \A k \in open : j <= k

HaltedRun(r) == runs[r].pc = "done" /\ runs[r].outcome = "halted"

\* the record of a run that halted at step i with message msg
HaltedAt(exec, i, msg) ==
  /\ i \in StepsOf(exec)
  /\ exec.status = "failed"
  /\ \A j \in StepsOf(exec) :
       /\ j < i => StatusOf(exec, j) = "success"
       /\ j = i => StatusOf(exec, j) = "error" /\ exec.steps[j + 1].error = msg
       /\ j > i => StatusOf(exec, j) = "pending"

\* C1: when runSteps returns because the quote, the chain switch or the
\* submission of step i failed, the snap's record and the record the site
\* shows have every step before i success, step i error with the failure
\* message, every step after i pending and the overall status failed, and
\* the run requested no quote, switch or submission for a step after i and
\* has no request outstanding.
C1_HaltsOnFailure ==
  \A r \in Runs :
    HaltedRun(r) =>
      /\ runs[r].msg # NoMsg
      /\ HaltedAt(snapExec, runs[r].i, runs[r].msg)
      /\ execution # Null => HaltedAt(execution, runs[r].i, runs[r].msg)
      /\ \A x \in requested : x.run = r => x.step <= runs[r].i
      /\ \A x \in outstanding : x.run # r

\* a run halted at the second of three steps: the first is success, the
\* third still pending
C1_Witness ==
  \E r \in Runs :
    /\ HaltedRun(r)
    /\ runs[r].i = 1
    /\ execution # Null
    /\ Len(execution.steps) = 3
    /\ StatusOf(snapExec, 0) = "success"
    /\ StatusOf(snapExec, 2) = "pending"
    /\ runs[r].msg = MsgQuoteFailed

RetryRun(r) == runs[r].kind = "retry"

\* the messages of the failures of the external calls
ExternalFailures == {MsgQuoteFailed, MsgRejected, MsgUnknownChain}

\* C2: retryFromStep restarts the loop at the first non-success index, the
\* step in error; that step is pending in the snap before the loop
\* re-enters; the loop then works on the steps from there on in index
\* order, every step before the current one being success; the retry ends
\* otherwise than completed only on a failed external call, a missing
\* account or a cancellation, and when it ends completed it has submitted
\* each of the steps i..n-1 and both records are completed with every step
\* success.
C2_RetryResumes ==
  \A r \in Runs :
    RetryRun(r) =>
      /\ runs[r].pc = "accounts" =>
           /\ runs[r].startFrom = FirstNonSuccess(runs[r].exec)
           /\ runs[r].startFrom = FirstNonSuccess(snapExec)
           /\ StatusOf(snapExec, runs[r].startFrom) = "error"
      /\ runs[r].pc = "reset" =>
           /\ runs[r].startFrom = FirstNonSuccess(snapExec)
           /\ StatusOf(snapExec, runs[r].startFrom) = "pending"
      /\ Active(r) /\ runs[r].pc \notin {"accounts", "reset"} =>
           /\ runs[r].i >= runs[r].startFrom
           /\ \A j \in StepsOf(snapExec) :
                j < runs[r].i => StatusOf(snapExec, j) = "success"
      /\ runs[r].pc = "done" =>
           /\ runs[r].outcome \in {"completed", "halted", "cancelled", "noaccount"}
           /\ runs[r].outcome = "halted" => runs[r].msg \in ExternalFailures
           /\ runs[r].outcome = "completed" =>
                /\ snapExec.status = "completed"
                /\ AllSuccess(snapExec.steps)
                /\ execution # Null =>
                     execution.status = "completed" /\ AllSuccess(execution.steps)
                /\ {x.step : x \in {y \in sent : y.run = r}}
                     = {j \in StepsOf(snapExec) : j >= runs[r].startFrom}

\* a retry from the second of three steps that ended completed
C2_Witness ==
  \E r \in Runs :
    /\ RetryRun(r)
    /\ runs[r].pc = "done"
    /\ runs[r].outcome = "completed"
    /\ runs[r].startFrom = 1
    /\ Len(snapExec.steps) = 3
    /\ execution # Null

SameRecord(a, b) == a # Null /\ b # Null /\ a.startedAt = b.startedAt

\* the success records of a are the same in b
Frozen(a, b) ==
  SameRecord(a, b) =>
    \A j \in StepsOf(a) :
      StatusOf(a, j) = "success" =>
        /\ j \in StepsOf(b)
        /\ StatusOf(b, j) = "success"
        /\ b.steps[j + 1].txHash = a.steps[j + 1].txHash
        /\ b.steps[j + 1].chainId = a.steps[j + 1].chainId
        /\ b.steps[j + 1].quotedOutput = a.steps[j + 1].quotedOutput

\* C3: a step that is success keeps its status, hash, chain and quoted
\* output in every later state of the same execution record, in the snap
\* and in the site, and the record a retry starts its loop with keeps
\* every step before the first non-success index as it was.
C3_SuccessImmutable ==
  [][/\ Frozen(snapExec, snapExec')
     /\ Frozen(execution, execution')
     /\ \A r \in Runs :
          (RetryRun(r) /\ runs[r].pc = "reset" /\ runs'[r].pc # "reset"
             /\ execution' # Null) =>
            \A j \in StepsOf(runs[r].exec) :
              j < FirstNonSuccess(runs[r].exec) =>
                execution'.steps[j + 1] = runs[r].exec.steps[j + 1]]_vars

\* a retry works on the second step while the first keeps its hash
C3_Witness ==
  \E r \in Runs :
    /\ RetryRun(r)
    /\ runs[r].pc = "send_wait"
    /\ runs[r].i = 1
    /\ StatusOf(snapExec, 0) = "success"
    /\ snapExec.steps[1].txHash # NoHash
    /\ execution # Null
    /\ StatusOf(execution, 0) = "success"
    /\ execution.steps[1].txHash # NoHash

\* C4: a run or retry requests at most one submission for a step, so a
\* failed submission is not repeated within it, and it requests none for
\* a step that has succeeded before (the snap holds a hash for it).
C4_NoResubmission ==
  \A x \in sent :
    x.by = "runSteps" => x.n = 1 /\ x.hashBefore = NoHash

\* the user retries a step whose submission was rejected: the retry
\* submits that step, once, and not the step before it
C4_Witness ==
  \E r \in Runs :
    /\ RetryRun(r)
    /\ runs[r].pc = "send_wait"
    /\ runs[r].i = 1
    /\ snapExec.steps[2].error = MsgRejected
    /\ {x.step : x \in {y \in sent : y.run = r}} = {1}

\* C5: the source amount of the quote request of a step i > 0 flagged to
\* use the previous output is the quotedOutput recorded for step i-1, as
\* it stands, and not the conversion of the step's own amount.
C5_ChainedAmount ==
  \A r \in Runs :
    (runs[r].pc = "quote_wait" /\ runs[r].step.useAllFromPrevious /\ runs[r].i > 0) =>
      /\ Request(r, "quote") \in outstanding
      /\ HasStep(snapExec, runs[r].i - 1)
      /\ snapExec.steps[runs[r].i].quotedOutput # NoAmount
      /\ runs[r].rawAmount = snapExec.steps[runs[r].i].quotedOutput
      /\ runs[r].rawAmount #
           parseAmount(IF runs[r].step.amount = NoAmount THEN <<"0">>
                       ELSE runs[r].step.amount,
                       TokenDecimals(runs[r].step.fromToken))

\* the second step chains from a first step quoted at 123456
C5_Witness ==
  \E r \in Runs :
    /\ runs[r].pc = "quote_wait"
    /\ runs[r].i = 1
    /\ runs[r].step.useAllFromPrevious
    /\ runs[r].rawAmount = <<"1", "2", "3", "4", "5", "6">>

\* C6: a quote is requested for a step flagged to use the previous output
\* only if a predecessor exists and has a quoted output recorded; at any
\* index, prepareStepQuote fails otherwise before it requests a quote.
C6_ChainingError ==
  \A r \in Runs :
    (runs[r].pc = "quote_wait" /\ runs[r].step.useAllFromPrevious) =>
      /\ runs[r].i > 0
      /\ HasStep(runs[r].s, runs[r].i - 1)
      /\ runs[r].s.steps[runs[r].i].quotedOutput # NoAmount

\* the changes of status of the steps that a and b both have
Transitions(a, b) ==
  {<<StatusOf(a, j), StatusOf(b, j)>> :
     j \in {k \in StepsOf(a) \cap StepsOf(b) : StatusOf(a, k) # StatusOf(b, k)}}

Allowed ==
  {<<"pending", "quoting">>, <<"quoting", "ready">>,
   <<"quoting", "switching-chain">>, <<"ready", "switching-chain">>,
   <<"switching-chain", "confirming">>, <<"confirming", "success">>,
   <<"quoting", "error">>, <<"switching-chain", "error">>,
   <<"confirming", "error">>, <<"error", "pending">>}

\* a retry goes from its reset to the head of its loop: the site resets the
\* record and marks the step quoting without an await in between
RetryEntersLoop == \E r \in Runs : RetryRun(r) /\ runs[r].pc = "reset" /\ runs'[r].pc # "reset"

Sequential(exec) ==
  /\ \A j \in StepsOf(exec) :
       StatusOf(exec, j) # "pending" =>
         \A k \in StepsOf(exec) : k < j => StatusOf(exec, k) = "success"
  /\ Cardinality({j \in StepsOf(exec) : StatusOf(exec, j) \in InProgress}) <= 1

\* C8: in every state of the snap's execution record and of the record
\* the site shows, if step j is not pending then every step before j is
\* success, and at most one step is quoting, ready, switching-chain or
\* confirming.
C8_Sequential == Sequential(snapExec) /\ Sequential(execution)

\* the second of three steps is being confirmed
C8_Witness ==
  /\ snapExec # Null
  /\ Len(snapExec.steps) = 3
  /\ StatusOf(snapExec, 0) = "success"
  /\ StatusOf(snapExec, 1) = "confirming"
  /\ StatusOf(snapExec, 2) = "pending"
  /\ execution # Null
  /\ StatusOf(execution, 1) = "confirming"

(***************************************************************************)
(* Properties of the engine as its buttons permit.                         *)
(***************************************************************************)
\* the await an activation is suspended at while its request is outstanding
WaitPc(kind) ==
  CASE kind = "quote" -> "quote_wait"
    [] kind = "switch" -> "switch_wait"
    [] kind = "add" -> "add_wait"
    [] kind = "send" -> "send_wait"

\* C9, as stated: at most one external request of the engine is
\* outstanding at any time, whatever the execute, retry and reset triggers.
C9_OneOutstanding == Cardinality(outstanding) <= 1

\* C9, amended: every activation of the engine has at most one external
\* request outstanding, the one of the await it is suspended at, for its
\* current step, so it issues its next request only after the previous one
\* returned; the requests of two activations started by two triggers can be
\* outstanding together.
C9_OneOutstandingPerRun ==
  /\ \A r \in Runs : Cardinality({x \in outstanding : x.run = r}) <= 1
  /\ \A x \in outstanding :
       /\ x.run \in Runs
       /\ runs[x.run].pc = WaitPc(x.kind)
       /\ x.step = runs[x.run].i
  /\ \A r \in Runs :
       runs[r].pc \in {"quote_wait", "switch_wait", "add_wait", "send_wait"} =>
         \E x \in outstanding : x.run = r

\* two activations wait for their quotes at once
C9_Witness ==
  /\ Cardinality(outstanding) = 2
  /\ \A r \in Runs : runs[r].pc = "quote_wait"

(***************************************************************************)
(* Properties of the engine with the other users of the snap state.        *)
(***************************************************************************)
\* C10: the transaction runSteps hands to eth_sendTransaction for step i
\* is the one prepareStepQuote stored for step i in that run (a quote, with
\* the stepId of that step), and saveToEns and confirmPendingEnsTx hand
\* over only a transaction tagged ens-write.
C10_SubmitsMatchingTx ==
  \A x \in sent :
    /\ x.by = "runSteps" =>
         /\ x.tx.type = "lifi-swap"
         /\ x.tx.stepId = x.stepId
         /\ x.tx.data = <<"quote", x.run, x.step>>
    /\ x.by \in {"saveToEns", "confirmPendingEnsTx"} =>
         x.tx.type = "ens-write"

\* C11: a transaction handed to eth_sendTransaction by the step loop or by
\* confirmPendingEnsTx is, at that moment, the one the slot holds: a
\* transaction that was replaced or cleared in the slot since it was read
\* is not submitted.
C11_NoStaleSubmission ==
  [][/\ \A r \in Runs :
          (runs[r].pc = "send" /\ runs'[r].pc = "send_wait") =>
            runs[r].txData = preparedTx
     /\ (ens.pc = "switch" /\ ens'.pc = "send_wait"
           /\ ens.via = "confirmPendingEnsTx") =>
          ens.txData = preparedTx]_vars

\* the success entries of a record hold a hash and a chain, and the
\* record's current step index is past them
SuccessRecorded(exec) ==
  \A j \in StepsOf(exec) :
    StatusOf(exec, j) = "success" =>
      /\ exec.steps[j + 1].txHash # NoHash
      /\ exec.steps[j + 1].chainId # NoChain
      /\ exec.currentStepIndex > j

\* C12: once the submission of step i succeeded, StepExecution i of the
\* snap's execution record, and of the record the site shows, is success
\* with the returned hash and the chain the transaction was sent on, and
\* currentStepIndex is i + 1 (past i).
C12_SuccessRecorded == SuccessRecorded(snapExec) /\ SuccessRecorded(execution)

\* C13: after a successful submission the slot is null: when a run has
\* marked a step success and cleared the slot, when it is about to quote
\* the next step, and when it has ended completed.
C13_SlotCleared ==
  \A r \in Runs :
    /\ runs[r].pc = "succeeded" => preparedTx = Null
    /\ (runs[r].pc = "quote" /\ runs[r].i > runs[r].startFrom) => preparedTx = Null
    /\ (runs[r].pc = "done" /\ runs[r].outcome = "completed") => preparedTx = Null

\* the first step succeeded and the run is about to quote the second
C13_Witness ==
  \E r \in Runs :
    /\ runs[r].pc = "quote"
    /\ runs[r].i = 1
    /\ runs[r].startFrom = 0
    /\ StatusOf(snapExec, 0) = "success"
    /\ preparedTx = Null

(***************************************************************************)
(* The snap alone, under any sequence of the requests that change the      *)
(* current workflow or the execution record: the composer's swap form      *)
(* (handlers/index.tsx handleSwapSubmit) and the RPC methods               *)
(* startExecution, updateStepStatus, deleteStep, importWorkflow /          *)
(* loadFromEns and newWorkflow (rpc.ts).  Identifiers come from            *)
(* generateId (helpers.ts), which numbers them with Date.now() and a       *)
(* counter: here the clock.                                                *)
(***************************************************************************)
MaxClock == 4
MaxSnapSteps == 2

\* generateId(), the k-th identifier made at the present time
NewId(k) == MaxSteps + clock + k

\* the amounts typed into the form
FormAmounts ==
  { <<"1", ".", "5">>, <<>>, <<"0">>, <<"-", "1">>, <<"a">>, <<"1", "e", "3">> }

\* the submissions of the swap form: the tokens and the chains are chosen
\* from drop-downs, the amount is typed
FormValues ==
  [fromChain : {ARBITRUM}, toChain : {ARBITRUM}, fromToken : {"USDC"},
   toToken : {"ETH", "USDC"}, amount : FormAmounts, useAllFromPrevious : BOOLEAN]

AllDigits(s) == \A k \in DOMAIN s : \E d \in DOMAIN DigitChars : s[k] = DigitChars[d]

RECURSIVE IndexOfExp(_, _)
IndexOfExp(s, k) ==
  IF k > Len(s) THEN 0
  ELSE IF s[k] \in {"e", "E"} THEN k
  ELSE IndexOfExp(s, k + 1)

Unsigned(s) == IF s # <<>> /\ Head(s) \in {"+", "-"} THEN Tail(s) ELSE s

\* digits, digits.digits, digits. or .digits
IsMantissa(m) ==
  LET d == IndexOfDot(m, 1)
  IN IF d = 0 THEN m # <<>> /\ AllDigits(m)
     ELSE LET a == SubSeq(m, 1, d - 1)
              b == SubSeq(m, d + 1, Len(m))
          IN AllDigits(a) /\ AllDigits(b) /\ (a # <<>> \/ b # <<>>)

\* !isNaN(Number(s)) for a non-empty s of signs, digits, dots and exponents:
\* Number reads a signed decimal literal with an optional exponent
IsNumber(s) ==
  LET u == Unsigned(s)
      e == IndexOfExp(u, 1)
  IN IF e = 0 THEN IsMantissa(u)
     ELSE /\ IsMantissa(SubSeq(u, 1, e - 1))
          /\ LET x == Unsigned(SubSeq(u, e + 1, Len(u)))
             IN x # <<>> /\ AllDigits(x)

\* Number(s) > 0 for such a literal: no minus sign and a digit of the
\* mantissa that is not 0
IsPositiveNumber(s) ==
  /\ IsNumber(s)
  /\ Head(s) # "-"
  /\ LET u == Unsigned(s)
         e == IndexOfExp(u, 1)
         m == IF e = 0 THEN u ELSE SubSeq(u, 1, e - 1)
     IN \E k \in DOMAIN m : m[k] \notin {"0", "."}

\* handleSwapSubmit 47 and 65: the submissions the handler turns down
swapSubmitRejects(form) ==
  \/ /\ ~form.useAllFromPrevious
     /\ (form.amount = <<>> \/ ~IsPositiveNumber(form.amount))
  \/ form.fromChain = form.toChain /\ form.fromToken = form.toToken

\* handleSwapSubmit 125-135: the step of an accepted submission
SwapStep(form, id) ==
  [id |-> id, type |-> "swap", useAllFromPrevious |-> form.useAllFromPrevious,
   amount |-> IF form.useAllFromPrevious THEN NoAmount ELSE form.amount,
   fromChain |-> form.fromChain, fromToken |-> form.fromToken,
   toChain |-> form.toChain, toToken |-> form.toToken]

\* The compact steps of the workflow texts given to importWorkflow or read
\* by loadFromEns (CompactStep of the serializer): an absent amount is <<>>,
\* an absent flag FALSE.  Anybody can write such a text.
CompactFixed ==
  [t |-> "swap", ft |-> "USDC", tt |-> "ETH", fc |-> ARBITRUM, tc |-> ARBITRUM,
   a |-> <<"1", ".", "5">>, all |-> FALSE]

CompactChained ==
  [t |-> "swap", ft |-> "ETH", tt |-> "USDC", fc |-> ETHEREUM, tc |-> ETHEREUM,
   a |-> <<>>, all |-> TRUE]

CompactSameToken ==
  [t |-> "swap", ft |-> "USDC", tt |-> "USDC", fc |-> ARBITRUM, tc |-> ARBITRUM,
   a |-> <<"-", "1">>, all |-> FALSE]

CompactWorkflows ==
  UNION { [1..n -> {CompactFixed, CompactChained, CompactSameToken}] :
            n \in 1..MaxSnapSteps }

\* deserializeWorkflow 228-249: every field that is present is copied, and
\* the workflow and its steps get new identifiers
deserializeStep(c, id) ==
  [id |-> id, type |-> c.t, useAllFromPrevious |-> c.all,
   amount |-> IF c.a # <<>> THEN c.a ELSE NoAmount,
   fromChain |-> c.fc, fromToken |-> c.ft, toChain |-> c.tc, toToken |-> c.tt]

deserializeWorkflow(compact) ==
  [id |-> NewId(0),
   steps |-> [k \in 1..Len(compact) |-> deserializeStep(compact[k], NewId(k))]]

MsgNoSteps == "No workflow with steps to execute."

\* The caller of an RPC method keeps what the call returned: the first
\* activation record holds the outcome of the last startExecution.
Caller == 1

\* rpc.ts startExecution, 85-110
RpcStartExecution ==
  /\ clock < MaxClock
  /\ IF startExecutionThrows(currentWorkflow)
     THEN /\ runs' = [runs EXCEPT ![Caller] =
                        [IdleRun EXCEPT !.pc = "threw", !.kind = "execute",
                                        !.msg = MsgNoSteps]]
          /\ UNCHANGED <<snapExec, clock, call>>
     ELSE /\ snapExec' = startExecution(currentWorkflow, clock)
          /\ clock' = clock + 1
          /\ call' = call
          /\ runs' = [runs EXCEPT ![Caller] =
                        [IdleRun EXCEPT !.pc = "started", !.kind = "execute",
                                        !.exec = startExecution(currentWorkflow, clock)]]
  /\ UNCHANGED <<currentWorkflow, preparedTx, userNamehash, siteVars, ens, ui, histVars>>

\* rpc.ts updateStepStatus, 205-249, with any index and status
RpcUpdateStepStatus ==
  /\ \E stepIndex \in 0..(MaxSnapSteps - 1), status \in {"quoting", "success", "error"} :
       IF updateStepStatusThrows(snapExec, stepIndex)
       THEN UNCHANGED snapExec
       ELSE snapExec' = updateStepStatus(snapExec, stepIndex, status,
                          IF status = "success" THEN <<"0x", stepIndex>> ELSE NoHash,
                          IF status = "error" THEN MsgRejected ELSE NoMsg)
  /\ UNCHANGED <<currentWorkflow, preparedTx, userNamehash, siteVars, runs, ens, ui,
                 clock, call, histVars>>

\* rpc.ts deleteStep, 251-263, of any step
RpcDeleteStep ==
  /\ currentWorkflow # Null
  /\ \E k \in DOMAIN currentWorkflow.steps :
       currentWorkflow' = deleteStep(currentWorkflow, currentWorkflow.steps[k].id)
  /\ UNCHANGED <<snapExec, preparedTx, userNamehash, siteVars, runs, ens, ui,
                 clock, call, histVars>>

\* rpc.ts importWorkflow 350-357 and loadFromEns 325-348
RpcImportWorkflow ==
  /\ \E compact \in CompactWorkflows :
       /\ clock + Len(compact) + 1 <= MaxClock
       /\ currentWorkflow' = deserializeWorkflow(compact)
       /\ clock' = clock + Len(compact) + 1
       /\ call' = call
  /\ UNCHANGED <<snapExec, preparedTx, userNamehash, siteVars, runs, ens, ui, histVars>>

\* rpc.ts newWorkflow, 359-369
RpcNewWorkflow ==
  /\ clock < MaxClock
  /\ currentWorkflow' = [id |-> NewId(0), steps |-> <<>>]
  /\ clock' = clock + 1
  /\ call' = call
  /\ UNCHANGED <<snapExec, preparedTx, userNamehash, siteVars, runs, ens, ui, histVars>>

\* handleSwapSubmit 35-150: the swap form is submitted; the form offers the
\* flag when a step exists already (renderSwapForm 209)
UiSwapSubmit ==
  /\ clock < MaxClock
  /\ currentWorkflow # Null
  /\ Len(currentWorkflow.steps) < MaxSnapSteps
  /\ \E form \in FormValues :
       /\ form.useAllFromPrevious => Len(currentWorkflow.steps) > 0
       /\ IF swapSubmitRejects(form)
          THEN UNCHANGED <<currentWorkflow, clock, call>>
          ELSE /\ currentWorkflow' =
                    [currentWorkflow EXCEPT !.steps = Append(@, SwapStep(form, NewId(0)))]
               /\ clock' = clock + 1
               /\ call' = call
  /\ UNCHANGED <<snapExec, preparedTx, userNamehash, siteVars, runs, ens, ui, histVars>>

InitSnap == InitOneRun /\ Len(currentWorkflow.steps) <= MaxSnapSteps

NextSnap ==
  \/ UiSwapSubmit
  \/ RpcStartExecution
  \/ RpcUpdateStepStatus
  \/ RpcDeleteStep
  \/ RpcImportWorkflow
  \/ RpcNewWorkflow

SpecSnap == InitSnap /\ [][NextSnap]_vars

(***************************************************************************)
(* Properties of the snap alone.                                           *)
(***************************************************************************)
\* C14: an existing execution record has one StepExecution per step of the
\* current workflow, in the same order and with the same step ids, after
\* any sequence of startExecution, step additions, deleteStep,
\* importWorkflow / loadFromEns, newWorkflow and updateStepStatus.
C14_RecordMatchesWorkflow ==
  snapExec # Null =>
    /\ currentWorkflow # Null
    /\ Len(snapExec.steps) = Len(currentWorkflow.steps)
    /\ \A k \in DOMAIN snapExec.steps :
         snapExec.steps[k].stepId = currentWorkflow.steps[k].id

\* C15: the first step of the current workflow never has the
\* use-previous-output flag, after any sequence of step additions,
\* deleteStep and importWorkflow / loadFromEns.
C15_FirstStepNotChained ==
  (currentWorkflow # Null /\ Len(currentWorkflow.steps) > 0) =>
    ~currentWorkflow.steps[1].useAllFromPrevious

\* a fixed amount as the amount codec expects it: a decimal numeral that is
\* not zero
IsDecimalAmount(a) ==
  /\ a # NoAmount
  /\ IsMantissa(a)
  /\ \E k \in DOMAIN a : a[k] \notin {"0", "."}

\* a step the composer's validation lets through
IsValidatedStep(step) ==
  /\ step.useAllFromPrevious \/ IsDecimalAmount(step.amount)
  /\ ~(step.fromChain = step.toChain /\ step.fromToken = step.toToken)

\* C16: every step of the current workflow that an execution record
\* accepted by startExecution refers to has a well-formed positive fixed
\* amount (or the flag) and does not swap a token to itself on one chain.
C16_OnlyValidatedSteps ==
  (snapExec # Null /\ currentWorkflow # Null) =>
    \A k \in DOMAIN currentWorkflow.steps :
      (\E j \in DOMAIN snapExec.steps :
          snapExec.steps[j].stepId = currentWorkflow.steps[k].id) =>
        IsValidatedStep(currentWorkflow.steps[k])

\* C20: startExecution on a current workflow with at least one step
\* installs a new record (whatever the record before): status running,
\* currentStepIndex 0, one StepExecution per step, in order, pending with
\* null hash, chain, error and quoted output, and returns it; with no
\* workflow or no step it fails and changes nothing in the snap's state.
C20_StartExecution ==
  [][runs'[Caller] # runs[Caller] =>
       IF currentWorkflow = Null \/ Len(currentWorkflow.steps) = 0
       THEN /\ runs'[Caller].pc = "threw"
            /\ runs'[Caller].msg = MsgNoSteps
            /\ UNCHANGED snapVars
       ELSE /\ runs'[Caller].pc = "started"
            /\ runs'[Caller].exec = snapExec'
            /\ snapExec'.workflowId = currentWorkflow.id
            /\ snapExec'.status = "running"
            /\ snapExec'.currentStepIndex = 0
            /\ Len(snapExec'.steps) = Len(currentWorkflow.steps)
            /\ \A k \in DOMAIN currentWorkflow.steps :
                 /\ snapExec'.steps[k].stepId = currentWorkflow.steps[k].id
                 /\ snapExec'.steps[k].status = "pending"
                 /\ snapExec'.steps[k].txHash = NoHash
                 /\ snapExec'.steps[k].chainId = NoChain
                 /\ snapExec'.steps[k].error = NoMsg
                 /\ snapExec'.steps[k].quotedOutput = NoAmount
            /\ UNCHANGED <<currentWorkflow, preparedTx, userNamehash>>]_vars

\* a record was installed and its first step became success; the workflow
\* was then emptied and the next startExecution failed, leaving the record
C20_Witness ==
  /\ runs[Caller].pc = "threw"
  /\ Len(currentWorkflow.steps) = 0
  /\ snapExec # Null
  /\ snapExec.steps[1].status = "success"

\* ---------------------------------------------------------------------
\* C18: after every updateStepStatus the overall status of the execution
\* record is completed exactly when every step is success, failed when not
\* every step is success and some step is error, and running otherwise.
\* No record, of the snap or of the site (1161-1168), is completed while
\* one of its steps is not success.  It holds of a run alone (SpecOneRun);
\* with the handlers of the snap's home page it does not: handleGetQuote
\* writes back the state it was given before its quote (handlers 249-263),
\* execution included, and prepareStepQuote marks a step ready in the record
\* it read without recomputing the overall status (rpc.ts 188-200).
C18_OverallStatus ==
  /\ snapExec # Null =>
       LET n == Len(snapExec.steps)
           every == \A k \in 1..n : snapExec.steps[k].status = "success"
           some == \E k \in 1..n : snapExec.steps[k].status = "error"
       IN /\ (snapExec.status = "completed") <=> every
          /\ (snapExec.status = "failed") <=> (~every /\ some)
          /\ (snapExec.status = "running") <=> (~every /\ ~some)
  /\ (execution # Null /\ execution.status = "completed") =>
       \A k \in 1..Len(execution.steps) : execution.steps[k].status = "success"

\* ---------------------------------------------------------------------
\* Every request of a run returns, and the continuation after it runs: the
\* event loop resumes an activation whose awaited promise has settled.
SpecOneRunFair == SpecOneRun /\ \A r \in Runs : WF_vars(RunStep(r))

\* runSteps is about to be entered: by executeWorkflow (1220-1224) or by
\* retryFromStep (1259-1270)
RunStarted(r) == runs[r].pc \in {"started", "reset"}

EndedCompleted(r, exec) ==
  /\ exec # Null
  /\ exec.status = "completed"
  /\ \A k \in 1..Len(exec.steps) : exec.steps[k].status = "success"

EndedPaused(r, exec) ==
  /\ exec # Null
  /\ exec.status = "failed"
  /\ Cardinality({k \in 1..Len(exec.steps) : exec.steps[k].status = "error"}) = 1

\* C19: if every quote, chain-switch and submission request returns, every
\* run that executeWorkflow or retryFromStep starts ends: with all steps
\* success, the records completed and the executor in success, or with
\* exactly one step in error, the records failed and the executor paused.
\* A retry that is cancelled while it awaits the accounts or the reset of
\* its step (the Cancel button is rendered while the executor is paused)
\* ends in neither: the loop returns at its first check of the flag (992)
\* after retryFromStep has shown the record again and set the executor to
\* executing (1266-1267).
C19_RunEnds ==
  \A r \in Runs :
    RunStarted(r) ~>
      /\ runs[r].pc = "done"
      /\ outstanding = {}
      /\ \/ /\ runs[r].outcome = "completed"
            /\ execStatus = "success"
            /\ EndedCompleted(r, snapExec) /\ EndedCompleted(r, execution)
         \/ /\ runs[r].outcome = "halted"
            /\ execStatus = "paused"
            /\ EndedPaused(r, snapExec) /\ EndedPaused(r, execution)

(***************************************************************************)
(* The engine with cancellation: as SpecRuns, but executeWorkflow takes    *)
(* the record of an activation that has returned, so that a run, its retry *)
(* and a further run follow each other.                                    *)
(***************************************************************************)
ReuseRun(r) ==
  /\ ~Active(r)
  /\ \A q \in Runs : q < r => Active(q)

CancelExecuteWorkflow(r) == ReuseRun(r) /\ ExecuteWorkflow(r)

NextCancel ==
  \/ ResetExecutor
  \/ \E r \in Runs :
       CancelExecuteWorkflow(r) \/ AnyRetryFromStep(r) \/ RunStep(r) \/ RunThrew(r)

SpecCancel == InitRuns /\ [][NextCancel]_vars

\* the activation is at the top of a loop iteration: before the first
\* (1220-1224, 1259-1270) or after a step succeeded (1148-1158)
AtLoopTop(r) == runs[r].pc \in {"started", "reset", "succeeded"}

\* C17: the cancellation flag is run-scoped.  Once resetExecutor was called
\* during a run, the run begins no other loop iteration: at the top of the
\* loop it returns, changing neither the snap's record (step statuses,
\* overall status) nor the prepared-transaction slot and requesting nothing,
\* even if another run or retry was started in between.
C17_CancelledRunStops ==
  [][\A r \in Runs :
       (runs[r].cancelled /\ AtLoopTop(r) /\ runs'[r] # runs[r]) =>
          /\ runs'[r].pc = "done"
          /\ snapExec' = snapExec
          /\ preparedTx' = preparedTx
          /\ outstanding' = outstanding]_vars

(***************************************************************************)
(* The functions of services/ens.ts and helpers.ts, followed one call at   *)
(* a time: call holds the arguments of the call, the await it is suspended *)
(* at and what it returned.  The snap and the site are at rest.            *)
(***************************************************************************)
\* a workflow of one step is composed (none when the restore from local
\* storage is followed); nothing else has happened
AtRest ==
  /\ currentWorkflow = IF call.op = "syncWithSnap" THEN Null
                       ELSE IF call.op = "prepareStepQuote" THEN call.wf
                       ELSE [id |-> 1, steps |-> <<FixedStep(1)>>]
  /\ snapExec = (IF "exec" \in DOMAIN call THEN call.exec ELSE Null)
  /\ preparedTx = (IF "slot" \in DOMAIN call THEN call.slot ELSE Null)
  /\ userNamehash = "" /\ execStatus = "idle" /\ workflow = Null
  /\ execution = Null /\ cancelledRef = FALSE
  /\ runs = [r \in Runs |-> IdleRun] /\ ens = IdleEns /\ ui = IdleUi
  /\ clock = 1 /\ outstanding = {} /\ requested = {} /\ sent = {}

AtRestStays ==
  UNCHANGED <<snapVars, siteVars, runs, ens, ui, clock, histVars>>

\* An ABI word: 64 hex digits (encodeUint256: padStart(64, '0')).  Hex
\* strings are modelled by their bytes, two hex digits each.
WordBytes == 32

\* A text of n bytes: "abc..." as character codes
Text(n) == [k \in 1..n |-> 97 + (k % 26)]

Zeros(n) == [k \in 1..n |-> 0]

\* hex.slice(a, b) of JavaScript on the bytes of hex, a and b in bytes
Slice(h, a, b) ==
  LET lo == IF a < 0 THEN 0 ELSE IF a > Len(h) THEN Len(h) ELSE a
      hi == IF b < 0 THEN 0 ELSE IF b > Len(h) THEN Len(h) ELSE b
  IN IF hi <= lo THEN <<>> ELSE SubSeq(h, lo + 1, hi)

\* parseInt(hex, 16): NaN, modelled as -1, for the empty string
RECURSIVE ParseInt(_)
ParseInt(h) ==
  IF h = <<>> THEN -1
  ELSE IF Len(h) = 1 THEN h[1]
  ELSE ParseInt(SubSeq(h, 1, Len(h) - 1)) * 256 + h[Len(h)]

\* num.toString(16).padStart(64, '0')
encodeUint256(num) ==
  Zeros(WordBytes - 2) \o <<num \div 256, num % 256>>

\* Math.ceil(n / 32) * 32 || 32
CeilWord(n) ==
  IF n = 0 THEN WordBytes ELSE ((n + WordBytes - 1) \div WordBytes) * WordBytes

\* padRight(hex, bytes): hex.padEnd(bytes * 2, '0')
padRight(h, bytes) == IF Len(h) >= bytes THEN h ELSE h \o Zeros(bytes - Len(h))

(***************************************************************************)
(* decodeString, services/ens.ts 107-122 (site: utils/ens.ts 161-173).     *)
(***************************************************************************)
\* the string a resolver returns: offset word, words before the string,
\* length word, data padded to a word (none for the empty string)
AbiString(before, text) ==
  encodeUint256(WordBytes * (1 + before)) \o Zeros(WordBytes * before)
    \o encodeUint256(Len(text))
    \o (IF text = <<>> THEN <<>> ELSE padRight(text, CeilWord(Len(text))))

MaxText == 33

\* the results of eth_call handed to decodeString: well-formed strings and
\* every prefix of one
DecodeInputs ==
  UNION { { SubSeq(AbiString(before, Text(n)), 1, m) :
              m \in 0..Len(AbiString(before, Text(n))) } :
          before \in {0, 1}, n \in {0, 1, MaxText - 1, MaxText} }

\* the result is null, or the string as its bytes
decodeString(h) ==
  IF Len(h) < 2 * WordBytes THEN Null
  ELSE LET offset == ParseInt(Slice(h, 0, WordBytes))
           length == ParseInt(Slice(h, offset, offset + WordBytes))
       IN IF length = 0 THEN Null
          ELSE IF length < 0 THEN [text |-> <<>>]
          ELSE [text |-> Slice(h, offset + WordBytes, offset + WordBytes + length)]

CallDecodeString ==
  /\ call.op = "decodeString" /\ call.pc = "called"
  /\ call' = [call EXCEPT !.pc = "returned", !.result = decodeString(call.hex)]
  /\ AtRestStays


(***************************************************************************)
(* readEnsText, services/ens.ts 161-186 (site: utils/ens.ts 246-275).      *)
(* Addresses and the registry's answer are hex strings, character by       *)
(* character; the answers of the resolvers are bytes.                      *)
(***************************************************************************)
ENS_PUBLIC_RESOLVER ==
    <<"0", "x", "2", "3", "1", "b", "0", "E", "e", "1", "4", "0", "4", "8",
    "e", "9", "d", "C", "c", "D", "1", "d", "2", "4", "7", "7", "4", "4",
    "d", "1", "1", "4", "a", "4", "E", "B", "5", "E", "8", "E", "6", "3">>

\* a resolver other than the public one, as the registry returns it
OtherResolver ==
    <<"0", "x", "4", "9", "7", "6", "f", "b", "0", "3", "c", "3", "2", "e",
    "5", "b", "8", "c", "f", "e", "2", "b", "6", "c", "c", "b", "3", "1",
    "c", "0", "9", "b", "a", "7", "8", "e", "b", "a", "b", "a", "4", "1">>

\* String.prototype.toLowerCase on the letters A to Z
ToLowerCase(str) ==
  LET upper ==
        <<"A", "B", "C", "D", "E", "F", "G", "H", "I", "J", "K", "L", "M",
        "N", "O", "P", "Q", "R", "S", "T", "U", "V", "W", "X", "Y", "Z">>
      lower ==
        <<"a", "b", "c", "d", "e", "f", "g", "h", "i", "j", "k", "l", "m",
        "n", "o", "p", "q", "r", "s", "t", "u", "v", "w", "x", "y", "z">>
  IN [k \in DOMAIN str |->
        IF \E n \in DOMAIN upper : upper[n] = str[k]
        THEN lower[CHOOSE n \in DOMAIN upper : upper[n] = str[k]]
        ELSE str[k]]

\* what resolver(bytes32) of the registry returns for an address: "0x", 24
\* zeros and the 40 digits of the address
RegistryWord(address) ==
  <<"0", "x">> \o [k \in 1..24 |-> "0"] \o SubSeq(address, 3, Len(address))

\* the answers of the registry: nothing, "0x", the zero word, the public
\* resolver in lower case and as written in the source, another resolver
RegistryResults ==
  { <<>>, <<"0", "x">>, <<"0", "x">> \o [k \in 1..64 |-> "0"],
    RegistryWord(ToLowerCase(ENS_PUBLIC_RESOLVER)),
    RegistryWord(ENS_PUBLIC_RESOLVER), RegistryWord(OtherResolver) }

\* what a resolver holds for the key: no record, answered with "0x" or with
\* the empty string, or a text of its own
Records(n) ==
  { [form |-> "0x", text |-> <<>>], [form |-> "abi", text |-> <<>>],
    [form |-> "abi", text |-> Text(n)] }

\* ethCall(to, data) on a resolver: an address names its contract whatever
\* the case of its letters
ethCall(to) ==
  LET held == IF ToLowerCase(to) = ToLowerCase(ENS_PUBLIC_RESOLVER)
              THEN call.public ELSE call.other
  IN IF held.form = "0x" THEN <<>> ELSE AbiString(0, held.text)

\* callText 154-158: result is the 0x-stripped answer
callText(result) == IF result = <<>> THEN Null ELSE decodeString(result)

\* if (value): neither null nor the empty string
Truthy(value) == value # Null /\ value.text # <<>>

hasResolver(resolverResult) ==
  /\ resolverResult # <<>>
  /\ resolverResult # <<"0", "x">>
  /\ resolverResult # <<"0", "x">> \o [k \in 1..64 |-> "0"]

\* an ethCall throws: HTML instead of JSON, or json.error (141-146)
ReadThrows == call' = [call EXCEPT !.pc = "threw"]

\* 165-176: the registry answered; text() is asked of the registered
\* resolver, or of the public one when none is registered
ReadRegistryResponse ==
  /\ call.op = "readEnsText" /\ call.pc = "registry"
  /\ \/ ReadThrows
     \/ IF hasResolver(call.resolverResult)
        THEN LET resolverAddress == <<"0", "x">> \o Slice(call.resolverResult, 26, 66)
             IN call' = [call EXCEPT !.pc = "resolver",
                                     !.resolverAddress = resolverAddress,
                                     !.reads = Append(@, resolverAddress)]
        ELSE call' = [call EXCEPT !.pc = "default",
                                  !.reads = Append(@, ENS_PUBLIC_RESOLVER)]
  /\ AtRestStays

\* variant: an empty answer of the registered resolver ends the read
ReadResolverResponseNoFallback ==
  /\ call.op = "readEnsText" /\ call.pc = "resolver"
  /\ LET value == callText(ethCall(call.resolverAddress))
     IN call' = [call EXCEPT !.pc = "returned",
                             !.result = IF Truthy(value) THEN value ELSE Null]
  /\ AtRestStays

\* variant: after an empty answer the public resolver is always asked
ReadResolverResponseRetry ==
  /\ call.op = "readEnsText" /\ call.pc = "resolver"
  /\ LET value == callText(ethCall(call.resolverAddress))
     IN IF Truthy(value)
        THEN call' = [call EXCEPT !.pc = "returned", !.result = value]
        ELSE call' = [call EXCEPT !.pc = "default",
                                  !.reads = Append(@, ENS_PUBLIC_RESOLVER)]
  /\ AtRestStays

\* 176-185: the registered resolver answered
ReadResolverResponse ==
  /\ call.op = "readEnsText" /\ call.pc = "resolver"
  /\ \/ ReadThrows
     \/ LET value == callText(ethCall(call.resolverAddress))
        IN IF Truthy(value)
           THEN call' = [call EXCEPT !.pc = "returned", !.result = value]
           ELSE IF ToLowerCase(call.resolverAddress) = ToLowerCase(ENS_PUBLIC_RESOLVER)
           THEN call' = [call EXCEPT !.pc = "returned", !.result = Null]
           ELSE call' = [call EXCEPT !.pc = "default",
                                     !.reads = Append(@, ENS_PUBLIC_RESOLVER)]
  /\ AtRestStays

\* 185: the public resolver answered; its value is returned as it is
ReadDefaultResponse ==
  /\ call.op = "readEnsText" /\ call.pc = "default"
  /\ \/ ReadThrows
     \/ call' = [call EXCEPT !.pc = "returned",
                             !.result = callText(ethCall(ENS_PUBLIC_RESOLVER))]
  /\ AtRestStays

\* readEnsText was called and has asked the registry (161-166)
ReadCalls ==
  { [op |-> "readEnsText", pc |-> "registry", resolverResult |-> rr,
     public |-> pub, other |-> oth, resolverAddress |-> <<>>,
     reads |-> <<"registry">>, result |-> Null] :
      rr \in RegistryResults, pub \in Records(1), oth \in Records(2) }


(***************************************************************************)
(* Saving to ENS: saveToEns (index.tsx 1283-1359) with prepareEnsSave      *)
(* (rpc.ts 265-323), and handleSaveToEns (handlers/index.tsx 441-543).     *)
(* Keys, names and slugs are strings, character by character.              *)
(***************************************************************************)
ENS_WORKFLOW_KEY_LEGACY ==
  <<"c", "o", "m", ".", "s", "u", "r", "e", "c", "a", "s", "t", ".", "w",
  "o", "r", "k", "f", "l", "o", "w">>

ENS_MANIFEST_KEY ==
  <<"c", "o", "m", ".", "s", "u", "r", "e", "c", "a", "s", "t", ".", "w",
  "o", "r", "k", "f", "l", "o", "w", "s">>

\* variant: the slug follows the prefix without a dot
getWorkflowKeyNoDot(slug) == ENS_WORKFLOW_KEY_LEGACY \o slug

\* `com.surecast.workflow.${slug}`
getWorkflowKey(slug) == ENS_WORKFLOW_KEY_LEGACY \o <<".">> \o slug

\* .slice(0, 32)
SlugLength == 32

\* slugify 17-23: lower case, runs of other characters than a-z0-9 become
\* one hyphen, hyphens at the ends are dropped, at most 32 characters
RECURSIVE Hyphenate(_)
Hyphenate(str) ==
  IF str = <<>> THEN <<>>
  ELSE LET rest == Hyphenate(Tail(str))
           alnum == Head(str) \in
                      {"a", "b", "c", "d", "e", "f", "g", "h", "i", "j", "k", "l", "m",
                       "n", "o", "p", "q", "r", "s", "t", "u", "v", "w", "x", "y", "z",
                       "0", "1", "2", "3", "4", "5", "6", "7", "8", "9"}
       IN IF alnum THEN <<Head(str)>> \o rest
          ELSE IF rest # <<>> /\ Head(rest) = "-" THEN rest
          ELSE <<"-">> \o rest

slugify(name) ==
  LET dashed == Hyphenate(ToLowerCase(name))
      left == IF dashed # <<>> /\ Head(dashed) = "-" THEN Tail(dashed) ELSE dashed
      both == IF left # <<>> /\ left[Len(left)] = "-"
              THEN SubSeq(left, 1, Len(left) - 1) ELSE left
  IN SliceTo(both, SlugLength)

\* serializeManifest 259-261 and deserializeManifest 263-266: rows of
\* [slug, name]; a text that is not JSON makes JSON.parse throw
serializeManifest(entries) ==
  [ok |-> TRUE, rows |-> [k \in DOMAIN entries |-> <<entries[k].slug, entries[k].name>>]]

deserializeManifest(json) ==
  [k \in DOMAIN json.rows |-> [slug |-> json.rows[k][1], name |-> json.rows[k][2]]]

\* variant: the entry is always pushed
addEntryPush(manifestEntries, slug, name) ==
  Append(manifestEntries, [slug |-> slug, name |-> name])

\* rpc.ts 296-301, handlers 503-508, addToLocalManifest 375-380
addEntry(manifestEntries, slug, name) ==
  LET found == {k \in DOMAIN manifestEntries : manifestEntries[k].slug = slug}
  IN IF found # {}
     THEN [manifestEntries EXCEPT
             ![CHOOSE k \in found : \A j \in found : k <= j] =
                [slug |-> slug, name |-> name]]
     ELSE Append(manifestEntries, [slug |-> slug, name |-> name])

\* rpc.ts 279-320, handlers 485-528: the transaction of a save; data is
\* the list of setText calls the multicall batches
EnsWrite(name, workflowSlug, manifest) ==
  LET existing == IF manifest = Null \/ ~manifest.ok THEN <<>>
                  ELSE deserializeManifest(manifest)
  IN [type |-> "ens-write", stepId |-> NoStep, chainId |-> ETHEREUM,
      data |-> << [key |-> getWorkflowKey(workflowSlug), value |-> [workflow |-> name]],
                  [key |-> ENS_MANIFEST_KEY,
                   value |-> serializeManifest(addEntry(existing, workflowSlug, name))] >>]

MaxSaves == 2

\* the names of the workflows saved, the slugs the site passes (none: <<>>)
SaveNames == { <<"A", " ", "b">>, <<"a", "!", "b">>, <<"!">> }

SaveSlugs == { <<>>, <<"x">> }

\* what the name's ENS record holds under the manifest key at first:
\* nothing, a manifest of one entry, a text that is not JSON
HeldManifests ==
  { Null, [ok |-> FALSE, rows |-> <<>>],
    serializeManifest(<< [slug |-> <<"a", "-", "b">>, name |-> <<"O", "l", "d">>] >>) }

\* saveToEns or handleSaveToEns has started and awaits readEnsText of the
\* manifest (index.tsx 1300-1304, handlers 493-495)
SaveCall(op, name, slug, held, local, saves) ==
  [op |-> op, pc |-> "manifest", name |-> name, slug |-> slug, held |-> held,
   local |-> local, saves |-> saves, read |-> "none",
   reads |-> <<ENS_MANIFEST_KEY>>]

SaveCalls ==
  { SaveCall(op, name, IF op = "saveToEns" THEN slug ELSE <<>>, held, <<>>, 1) :
      op \in {"saveToEns", "handleSaveToEns"}, name \in SaveNames,
      slug \in SaveSlugs, held \in HeldManifests }

\* the manifest read returns or throws; a failed read and a manifest that
\* does not parse are caught ("start fresh"), and the transaction is
\* prepared: index.tsx 1300-1318 with rpc.ts 265-323, or handlers 492-528
SavePrepare ==
  /\ call.op \in {"saveToEns", "handleSaveToEns"} /\ call.pc = "manifest"
  /\ \E ok \in BOOLEAN :
       LET currentManifest == IF ok THEN call.held ELSE Null
           workflowSlug == IF call.slug # <<>> THEN call.slug ELSE slugify(call.name)
       IN /\ preparedTx' = EnsWrite(call.name, workflowSlug, currentManifest)
          /\ call' = [call EXCEPT !.pc = "prepared",
                                  !.read = IF ~ok THEN "error"
                                           ELSE IF call.held # Null /\ ~call.held.ok
                                           THEN "corrupt" ELSE "ok"]
  /\ UNCHANGED <<currentWorkflow, snapExec, userNamehash, siteVars, runs, ens, ui,
                 clock, histVars>>

\* index.tsx 1320-1352, or confirmPendingEnsTx 1365-1403: the transaction
\* is sent and mined, the slot cleared; saveToEns updates the local manifest
SaveSubmit ==
  /\ call.op \in {"saveToEns", "handleSaveToEns"} /\ call.pc = "prepared"
  /\ \/ /\ call' = [call EXCEPT !.pc = "failed"]
        /\ UNCHANGED <<preparedTx, sent>>
     \/ /\ sent' = sent \cup {[by |-> call.op, run |-> 0, step |-> 0, stepId |-> NoStep,
                               tx |-> preparedTx, n |-> call.saves,
                               hashBefore |-> NoHash]}
        /\ preparedTx' = Null
        /\ call' = [call EXCEPT
                      !.pc = "saved",
                      !.held = preparedTx.data[2].value,
                      !.local = IF call.op = "saveToEns"
                                THEN addEntry(@, IF call.slug # <<>> THEN call.slug
                                                 ELSE slugify(call.name), call.name)
                                ELSE @]
  /\ UNCHANGED <<currentWorkflow, snapExec, userNamehash, siteVars, runs, ens, ui,
                 clock, outstanding, requested>>

\* the next save, of a workflow of any name
SaveAgain ==
  /\ call.op \in {"saveToEns", "handleSaveToEns"} /\ call.pc = "saved"
  /\ call.saves < MaxSaves
  /\ \E op \in {"saveToEns", "handleSaveToEns"}, name \in SaveNames, slug \in SaveSlugs :
       call' = SaveCall(op, name, IF op = "saveToEns" THEN slug ELSE <<>>,
                        call.held, call.local, call.saves + 1)
  /\ AtRestStays

\* loadFromEns (rpc.ts 325-348) was called with a slug or without one
\* (<<>>) and awaits readEnsText of the first key; atSlug and atLegacy are
\* the texts the name holds under the slug key and under the legacy key
\* (<<>>: no record, readEnsText returns null)
\* a record whose text is not JSON: JSON.parse throws (part_007 229)
NotJson == << [json |-> FALSE] >>

\* what the snap holds besides the workflow when a workflow is loaded or
\* imported: the record of a run, and a transaction in the slot
HeldExec == startExecution([id |-> 1, steps |-> <<FixedStep(1)>>], 1)

HeldTx == [type |-> "ens-write", stepId |-> NoStep, chainId |-> ETHEREUM,
           data |-> <<"held", 0, 0>>]

LoadCalls ==
  { [op |-> "loadFromEns", pc |-> "first", slug |-> slug, atSlug |-> atSlug,
     atLegacy |-> atLegacy, first |-> "none",
     reads |-> << IF slug # <<>> THEN getWorkflowKey(slug)
                  ELSE ENS_WORKFLOW_KEY_LEGACY >>,
     exec |-> HeldExec, slot |-> HeldTx] :
      slug \in {<<>>, <<"x">>}, atSlug \in {<<>>, <<CompactFixed>>, NotJson},
      atLegacy \in {<<>>, <<CompactChained>>, NotJson} }

\* variant: the current workflow is dropped before the text is parsed
LoadImportDropsFirst(workflowJson, pc) ==
  /\ currentWorkflow' = IF workflowJson = NotJson THEN Null
                        ELSE deserializeWorkflow(workflowJson)
  /\ clock' = clock + Len(workflowJson) + 1
  /\ call' = [call EXCEPT !.pc = IF workflowJson = NotJson THEN "threw" ELSE pc]

\* rpc.ts 343-347: the text is deserialized and becomes the current
\* workflow, or deserializeWorkflow throws
LoadImport(workflowJson, pc) ==
  IF workflowJson = NotJson
  THEN /\ call' = [call EXCEPT !.pc = "threw"]
       /\ UNCHANGED <<currentWorkflow, clock>>
  ELSE /\ currentWorkflow' = deserializeWorkflow(workflowJson)
       /\ clock' = clock + Len(workflowJson) + 1
       /\ call' = [call EXCEPT !.pc = pc]

\* rpc.ts 333-341: the first read returns or throws
LoadFirstRead ==
  /\ call.op = "loadFromEns" /\ call.pc = "first"
  /\ \E ok \in BOOLEAN :
       LET workflowJson == IF call.slug # <<>> THEN call.atSlug ELSE call.atLegacy
       IN IF ~ok
          THEN call' = [call EXCEPT !.pc = "threw"] /\ UNCHANGED <<currentWorkflow, clock>>
          ELSE IF workflowJson = <<>> /\ call.slug # <<>>
          THEN /\ call' = [call EXCEPT !.pc = "legacy", !.first = "nothing",
                                       !.reads = Append(@, ENS_WORKFLOW_KEY_LEGACY)]
               /\ UNCHANGED <<currentWorkflow, clock>>
          ELSE IF workflowJson = <<>>
          THEN /\ call' = [call EXCEPT !.pc = "threw", !.first = "nothing"]
               /\ UNCHANGED <<currentWorkflow, clock>>
          ELSE LoadImport(workflowJson, "returned")
  /\ UNCHANGED <<snapExec, preparedTx, userNamehash, siteVars, runs, ens, ui, histVars>>

\* rpc.ts 337-347: the read of the legacy key returns or throws
LoadLegacyRead ==
  /\ call.op = "loadFromEns" /\ call.pc = "legacy"
  /\ \E ok \in BOOLEAN :
       IF ~ok \/ call.atLegacy = <<>>
       THEN call' = [call EXCEPT !.pc = "threw"] /\ UNCHANGED <<currentWorkflow, clock>>
       ELSE LoadImport(call.atLegacy, "returned")
  /\ UNCHANGED <<snapExec, preparedTx, userNamehash, siteVars, runs, ens, ui, histVars>>

(***************************************************************************)
(* encodeMulticall, services/ens.ts 280-313.  A payload is the bytes of    *)
(* its hex string and whether the string starts with 0x.                   *)
(***************************************************************************)
MaxCalls == 3

Payload(n, first) == [k \in 1..n |-> (first + k) % 256]

Payloads ==
  [x : BOOLEAN,
   bytes : {Payload(n, first) : n \in {0, 1, MaxText - 1, MaxText}, first \in {0, 127}}]

MulticallInputs == UNION { [1..n -> Payloads] : n \in 1..MaxCalls }

MulticallSelector == <<172, 150, 80, 216>>

RECURSIVE Join(_)
Join(parts) == IF parts = <<>> THEN <<>> ELSE Head(parts) \o Join(Tail(parts))

\* variant: the offset of the next item leaves out the length word
RECURSIVE TailOffsetNoLength(_, _)
TailOffsetNoLength(rawCalls, k) ==
  IF k = 1 THEN Len(rawCalls) * WordBytes
  ELSE TailOffsetNoLength(rawCalls, k - 1) + CeilWord(Len(rawCalls[k - 1]))

\* tailOffset when the loop reaches item k: 290 and 300
RECURSIVE TailOffset(_, _)
TailOffset(rawCalls, k) ==
  IF k = 1 THEN Len(rawCalls) * WordBytes
  ELSE TailOffset(rawCalls, k - 1) + WordBytes + CeilWord(Len(rawCalls[k - 1]))

encodeMulticall(calls) ==
  LET rawCalls == [k \in DOMAIN calls |-> calls[k].bytes]
      arrayOffset == encodeUint256(WordBytes)
      arrayLength == encodeUint256(Len(rawCalls))
      heads == [k \in DOMAIN rawCalls |-> encodeUint256(TailOffset(rawCalls, k))]
      tails == [k \in DOMAIN rawCalls |->
                  encodeUint256(Len(rawCalls[k]))
                    \o padRight(rawCalls[k], CeilWord(Len(rawCalls[k])))]
  IN [x |-> TRUE,
      bytes |-> MulticallSelector \o arrayOffset \o arrayLength \o Join(heads) \o Join(tails)]

MulticallCalls ==
  { [op |-> "encodeMulticall", pc |-> "called", calls |-> calls, result |-> Null] :
      calls \in MulticallInputs }

CallEncodeMulticall ==
  /\ call.op = "encodeMulticall" /\ call.pc = "called"
  /\ call' = [call EXCEPT !.pc = "returned", !.result = encodeMulticall(call.calls)]
  /\ AtRestStays

(***************************************************************************)
(* encodeSetText, services/ens.ts 57-80, with toHex 37-43.  A string is    *)
(* its UTF-16 code units, a hex string its digits (0..15), since toHex     *)
(* writes a code unit above 255 with three or four digits.                 *)
(***************************************************************************)
RECURSIVE ToString16(_)
ToString16(num) ==
  IF num < 16 THEN <<num>> ELSE ToString16(num \div 16) \o <<num % 16>>

PadStartZero(digits, n) ==
  IF Len(digits) >= n THEN digits ELSE [k \in 1..(n - Len(digits)) |-> 0] \o digits

\* toHex 37-43: charCodeAt(i).toString(16).padStart(2, '0') for every unit
RECURSIVE toHex(_)
toHex(str) ==
  IF str = <<>> THEN <<>>
  ELSE PadStartZero(ToString16(Head(str)), 2) \o toHex(Tail(str))

\* padRight and encodeUint256 on digits
PadEndZero16(hex, n) ==
  IF Len(hex) >= n THEN hex ELSE hex \o [k \in 1..(n - Len(hex)) |-> 0]

Uint256Digits(num) == PadStartZero(ToString16(num), 2 * WordBytes)

SetTextSelector == <<1, 0, 15, 1, 3, 10, 8, 12>>

\* the namehash handed in, 64 digits
NodeHex == [k \in 1..(2 * WordBytes) |-> k % 16]

encodeSetText(node, key, value) ==
  LET keyLength == Len(key)
      keyPadded == PadEndZero16(toHex(key), 2 * CeilWord(keyLength))
      valueLength == Len(value)
      valuePadded == PadEndZero16(toHex(value), 2 * CeilWord(valueLength))
      keyOffset == Uint256Digits(3 * WordBytes)
      keyDataSize == WordBytes + CeilWord(keyLength)
      valueOffset == Uint256Digits(3 * WordBytes + keyDataSize)
  IN SetTextSelector \o node \o keyOffset \o valueOffset
       \o Uint256Digits(keyLength) \o keyPadded
       \o Uint256Digits(valueLength) \o valuePadded

\* strings of n letters, and strings with a letter outside ASCII:
\* "Café", a euro sign, A with breve (U+0102)
SetTextStrings ==
  {Text(n) : n \in {0, 1, MaxText - 1, MaxText}}
    \cup { <<67, 97, 102, 233>>, <<8364>>, <<258>> }

SetTextCalls ==
  { [op |-> "encodeSetText", pc |-> "called", key |-> key, value |-> value,
     result |-> <<>>] : key \in SetTextStrings, value \in SetTextStrings }

CallEncodeSetText ==
  /\ call.op = "encodeSetText" /\ call.pc = "called"
  /\ call' = [call EXCEPT !.pc = "returned",
                          !.result = encodeSetText(NodeHex, call.key, call.value)]
  /\ AtRestStays

(***************************************************************************)
(* serializeWorkflow and deserializeWorkflow, services/ens.ts 209-249.     *)
(* A config field that is not populated holds "" (protocol, tokens), 0     *)
(* (chains), NoAmount or FALSE.  JSON.stringify and JSON.parse keep the    *)
(* strings, numbers and booleans of the compact form as they are.          *)
(***************************************************************************)
\* a deposit step with a protocol (types.ts 11-23)
DepositStep(id) ==
  [id |-> id, type |-> "deposit", protocol |-> "aave-v3", useAllFromPrevious |-> FALSE,
   amount |-> <<"2">>, fromChain |-> ETHEREUM, fromToken |-> "USDC",
   toChain |-> ETHEREUM, toToken |-> "aUSDC"]

\* the workflows handed to serializeWorkflow: a name, which may be empty,
\* and up to MaxSnapSteps steps
NamedWorkflows ==
  { [id |-> 1, name |-> name, updatedAt |-> 0, steps |-> steps] :
      name \in {<<>>, <<"C", "a", "f", "e">>},
      steps \in UNION { [1..n -> { [protocol |-> ""] @@ FixedStep(1),
                                   [protocol |-> ""] @@ ChainedStep(1),
                                   DepositStep(1) }] : n \in 0..MaxSnapSteps } }

\* 213-223: the fields of the step that are truthy are copied
serializeStep(s) ==
  [t |-> s.type, ft |-> s.fromToken, tt |-> s.toToken, fc |-> s.fromChain,
   tc |-> s.toChain, a |-> IF s.amount = NoAmount THEN <<>> ELSE s.amount,
   all |-> s.useAllFromPrevious]

serializeWorkflow(wf) ==
  [v |-> 1, name |-> wf.name, ts |-> wf.updatedAt,
   steps |-> [k \in DOMAIN wf.steps |-> serializeStep(wf.steps[k])]]

\* 228-249 with the name and the time of the text
deserializeWorkflowJson(json) ==
  [name |-> json.name, createdAt |-> json.ts] @@ deserializeWorkflow(json.steps)

SerializeCalls ==
  { [op |-> "serializeWorkflow", pc |-> "called", wf |-> w, result |-> Null] :
      w \in NamedWorkflows }

\* deserializeWorkflow(serializeWorkflow(w)) is evaluated
CallSerializeRoundTrip ==
  /\ call.op = "serializeWorkflow" /\ call.pc = "called"
  /\ call' = [call EXCEPT
                !.pc = "returned",
                !.result = deserializeWorkflowJson(serializeWorkflow(call.wf))]
  /\ clock' = clock + Len(call.wf.steps) + 1
  /\ UNCHANGED <<snapVars, siteVars, runs, ens, ui, histVars>>

(***************************************************************************)
(* formatTokenAmount, services/lifi.ts 93-102, after parseAmount,          *)
(* helpers.ts 14-19.                                                       *)
(***************************************************************************)
\* str.padStart(n, '0')
PadStartZeroChars(str, n) ==
  IF Len(str) >= n THEN str ELSE [k \in 1..(n - Len(str)) |-> "0"] \o str

\* str.replace(/0+$/, '')
RECURSIVE StripTrailingZeros(_)
StripTrailingZeros(str) ==
  IF str # <<>> /\ str[Len(str)] = "0"
  THEN StripTrailingZeros(SubSeq(str, 1, Len(str) - 1)) ELSE str

FractionShown == 4

formatTokenAmount(amount, decimals) ==
  IF amount = <<>> \/ amount = <<"0">> THEN <<"0">>
  ELSE LET padded == PadStartZeroChars(amount, decimals + 1)
           head == SubSeq(padded, 1, Len(padded) - decimals)
           intPart == IF head = <<>> THEN <<"0">> ELSE head
           fracPart == SliceTo(SubSeq(padded, Len(padded) - decimals + 1, Len(padded)),
                               FractionShown)
           trimmed == StripTrailingZeros(fracPart)
       IN IF trimmed # <<>> THEN intPart \o <<".">> \o trimmed ELSE intPart

\* decimal strings and decimal counts; a string has at most as many
\* fraction digits as the token has decimals
AmountStrings ==
  { <<"0">>, <<"7">>, <<"0", "0", "7">>, <<"1", ".", "5">>, <<"1", ".", "5", "0">>,
    <<"0", ".", "0", "0", "0", "1">>, <<"1", "2", ".", "0", "0", "0", "0", "1">>,
    <<"0", ".", "1", "2", "3", "4", "5">>, <<"1", "0", "0">> }

MaxDecimals == 6

AmountCalls ==
  { [op |-> "formatTokenAmount", pc |-> "called", s |-> p[1], d |-> p[2],
     result |-> <<>>] :
      p \in {q \in AmountStrings \X {0, 1, FractionShown, MaxDecimals} :
               Len(SplitSecond(q[1])) <= q[2]} }

\* formatTokenAmount(parseAmount(s, d), d) is evaluated
CallAmountRoundTrip ==
  /\ call.op = "formatTokenAmount" /\ call.pc = "called"
  /\ call' = [call EXCEPT
                !.pc = "returned",
                !.result = formatTokenAmount(parseAmount(call.s, call.d), call.d)]
  /\ AtRestStays

(***************************************************************************)
(* computeNamehash, utils/ens.ts 179-192, and namehash, 13-26.  keccak_256 *)
(* is a library function: its result is written as the term of its        *)
(* argument, so that two results are equal only for equal arguments.       *)
(***************************************************************************)
\* new Uint8Array(32)
ZeroNode == [zeros |-> WordBytes]

\* keccak_256(utf8ToBytes(label))
KeccakLabel(label) == [label |-> label]

\* keccak_256(concatBytes(node, labelHash))
KeccakNode(node, labelHash) == [node |-> node, labelHash |-> labelHash]

\* name.split('.')
RECURSIVE Split(_)
Split(str) ==
  LET d == IndexOfDot(str, 1)
  IN IF d = 0 THEN <<str>>
     ELSE <<SubSeq(str, 1, d - 1)>> \o Split(SubSeq(str, d + 1, Len(str)))

\* variant: the labels stay in the order of the name
ReverseNot(list) == list

\* Array.prototype.reverse
Reverse(list) == [k \in DOMAIN list |-> list[Len(list) + 1 - k]]

\* the loop over the labels, 186-189 and 18-24
RECURSIVE HashLabels(_, _)
HashLabels(labels, node) ==
  IF labels = <<>> THEN node
  ELSE HashLabels(Tail(labels), KeccakNode(node, KeccakLabel(Head(labels))))

computeNamehash(name) ==
  IF name = <<>> THEN ZeroNode
  ELSE HashLabels(Reverse(Split(ToLowerCase(name))), ZeroNode)

namehash(name) ==
  IF name = <<>> THEN ZeroNode
  ELSE HashLabels(Reverse(Split(name)), ZeroNode)

MaxName == 3

RECURSIVE Strings(_, _)
Strings(chars, n) ==
  IF n = 0 THEN {<<>>}
  ELSE LET shorter == Strings(chars, n - 1)
       IN shorter \cup {Append(str, c) : str \in shorter, c \in chars}

\* the names: every string of up to MaxName characters, and names of three
\* labels
Names ==
  Strings({"a", "b", "B", "."}, MaxName)
    \cup { <<"a", ".", "b", ".", "c">>, <<"c", ".", "b", ".", "a">>,
           <<"b", ".", "a", ".", "c">>, <<"a", "b", ".", "c">>, <<"a", ".", "b", "c">> }

\* the two functions are called with a name, and then with another
NamehashCalls ==
  { [op |-> "computeNamehash", pc |-> "called", name |-> name, other |-> other,
     result |-> ZeroNode, resultOther |-> ZeroNode,
     plain |-> ZeroNode, plainOther |-> ZeroNode] :
      name \in Names, other \in Names }

CallComputeNamehash ==
  /\ call.op = "computeNamehash" /\ call.pc = "called"
  /\ call' = [call EXCEPT !.pc = "returned",
                          !.result = computeNamehash(call.name),
                          !.resultOther = computeNamehash(call.other),
                          !.plain = namehash(call.name),
                          !.plainOther = namehash(call.other)]
  /\ AtRestStays

(***************************************************************************)
(* slugify called on a name, services/ens.ts 17-23 (site: utils/ens.ts     *)
(* 119-125), and again on its result.                                      *)
(***************************************************************************)
Repeat(c, n) == [k \in 1..n |-> c]

\* short names of letters, digits, blanks, hyphens and other characters,
\* and names about as long as a slug may be
SlugNames ==
  Strings({"A", "a", "1", " ", "-", "!"}, MaxName)
    \cup { Repeat("a", SlugLength - 1) \o <<" ", "b">>,
           Repeat("a", SlugLength - 2) \o <<" ", " ", "b", "c">>,
           Repeat("a", SlugLength) \o <<"b">>,
           Repeat("a", SlugLength - 1) \o <<"B">>,
           <<" ">> \o Repeat("a", SlugLength) \o <<" ">> }

SlugifyCalls ==
  { [op |-> "slugify", pc |-> "called", name |-> name, result |-> <<>>,
     again |-> <<>>] : name \in SlugNames }

CallSlugify ==
  /\ call.op = "slugify" /\ call.pc = "called"
  /\ call' = [call EXCEPT !.pc = "returned",
                          !.result = slugify(call.name),
                          !.again = slugify(slugify(call.name))]
  /\ AtRestStays

(***************************************************************************)
(* deserializeWorkflow on what JSON.parse gives for any text (services/    *)
(* ens.ts 228-249), importWorkflow (rpc.ts 350-357), and the restore from  *)
(* local storage by syncWithSnap (index.tsx 841-864).  A text is its       *)
(* parsed value; a field that the object lacks reads as undefined.         *)
(***************************************************************************)
Get(obj, field, undefined) == IF field \in DOMAIN obj THEN obj[field] ELSE undefined

\* JSON.parse throws, or compact.steps.map throws on an object without steps
deserializeJsonThrows(text) == ~text.json \/ "steps" \notin DOMAIN text.value

\* 234-245: the step built from the fields t, ft, tt, fc, tc, a and all
deserializeJsonStep(s, id) ==
  [id |-> id, type |-> Get(s, "t", "undefined"),
   useAllFromPrevious |-> Get(s, "all", FALSE),
   amount |-> IF Get(s, "a", <<>>) # <<>> THEN s.a ELSE NoAmount,
   fromChain |-> Get(s, "fc", NoChain), fromToken |-> Get(s, "ft", ""),
   toChain |-> Get(s, "tc", NoChain), toToken |-> Get(s, "tt", "")]

deserializeJson(text) ==
  [id |-> NewId(0), name |-> Get(text.value, "name", <<"undefined">>),
   steps |-> [k \in 1..Len(text.value.steps) |->
                deserializeJsonStep(text.value.steps[k], NewId(k))]]

\* JSON.stringify of a value
Stringify(value) == [empty |-> FALSE, json |-> TRUE, value |-> value]

\* the texts handed to importWorkflow: none, one that is not JSON, an
\* object that is no workflow, serialized workflows, and workflows as the
\* site keeps them
ImportTexts ==
  { [empty |-> TRUE, json |-> FALSE, value |-> [v |-> 0]],
    [empty |-> FALSE, json |-> FALSE, value |-> [v |-> 0]],
    Stringify([name |-> <<"C", "a", "f", "e">>]) }
    \cup {Stringify(serializeWorkflow(w)) : w \in NamedWorkflows}
    \cup {Stringify(w) : w \in NamedWorkflows}

\* rpc.ts 350-357
importWorkflow(text, pc) ==
  IF text.empty \/ deserializeJsonThrows(text)
  THEN /\ call' = [call EXCEPT !.pc = "threw"]
       /\ UNCHANGED <<currentWorkflow, clock>>
  ELSE /\ currentWorkflow' = deserializeJson(text)
       /\ clock' = clock + Len(text.value.steps) + 1
       /\ call' = [call EXCEPT !.pc = pc]

ImportCalls ==
  { [op |-> "importWorkflow", pc |-> "called", text |-> text,
     exec |-> HeldExec, slot |-> HeldTx] : text \in ImportTexts }

CallImportWorkflow ==
  /\ call.op = "importWorkflow" /\ call.pc = "called"
  /\ importWorkflow(call.text, "returned")
  /\ UNCHANGED <<snapExec, preparedTx, userNamehash, siteVars, runs, ens, ui, histVars>>

\* syncWithSnap has asked for the current workflow; local is what local
\* storage holds
RestoreCalls ==
  { [op |-> "syncWithSnap", pc |-> "getCurrentWorkflow", local |-> w] :
      w \in NamedWorkflows \cup {Null} }

\* index.tsx 841-856: the snap has no workflow, and the one of local
\* storage, if it has steps, is handed to importWorkflow
SyncRestore ==
  /\ call.op = "syncWithSnap" /\ call.pc = "getCurrentWorkflow"
  /\ currentWorkflow = Null
  /\ IF call.local # Null /\ Len(call.local.steps) > 0
     THEN importWorkflow(Stringify(call.local), "restored")
     ELSE /\ call' = [call EXCEPT !.pc = "nothing"]
          /\ UNCHANGED <<currentWorkflow, clock>>
  /\ UNCHANGED <<snapExec, preparedTx, userNamehash, siteVars, runs, ens, ui, histVars>>


\* ---------------------------------------------------------------------
\* prepareStepQuote called on its own: the snap holds a workflow, an
\* execution record and a prepared transaction, or lacks them.
\* a swap of a token the chain does not list
UnlistedStep(id) == [FixedStep(id) EXCEPT !.fromToken = "DAI"]

QuoteWorkflows ==
  {Null} \cup { [id |-> 1, steps |-> st] :
                  st \in { <<FixedStep(1)>>, <<UnlistedStep(1)>>,
                           <<FixedStep(1), ChainedStep(2)>>,
                           <<FixedStep(1), UnlistedStep(2)>> } }

\* the records the snap may hold for wf: none, the one startExecution made,
\* the one in which the first step has its quoted output
QuoteExecs(wf) ==
  IF wf = Null THEN {Null}
  ELSE {Null, startExecution(wf, 1),
        QuotedExec(startExecution(wf, 1), 0, <<"1", "2", "3">>)}

QuoteCalls ==
  { [op |-> "prepareStepQuote", pc |-> "called", wf |-> q[1], exec |-> q[2],
     slot |-> q[3], stepIndex |-> q[4], s |-> Null] :
      q \in { p \in (QuoteWorkflows
                       \X (UNION { QuoteExecs(w) : w \in QuoteWorkflows })
                       \X {Null, HeldTx} \X (0..2)) :
                p[2] \in QuoteExecs(p[1]) } }

\* variant: a rejected quote empties the slot
SnapAfterRejectedQuoteClears(slot) == Null

\* lifi.ts 55-60: getSwapQuote throws before rpc.ts 181-200 writes anything
SnapAfterRejectedQuote(slot) == slot

\* rpc.ts 117-179: the checks of prepareStepQuote, up to its quote request
CallPrepareStepQuote ==
  /\ call.op = "prepareStepQuote" /\ call.pc = "called"
  /\ call' = IF prepareStepQuoteError(currentWorkflow, snapExec, call.stepIndex) # NoMsg
             THEN [call EXCEPT !.pc = "threw"]
             ELSE [call EXCEPT !.pc = "quote_wait", !.s = snapExec]
  /\ AtRestStays

\* rpc.ts 171-202: the quote request is rejected, or its transaction is
\* stored and the quoted output recorded
CallQuoteResponse ==
  /\ call.op = "prepareStepQuote" /\ call.pc = "quote_wait"
  /\ \/ /\ call' = [call EXCEPT !.pc = "threw"]
        /\ preparedTx' = SnapAfterRejectedQuote(preparedTx)
        /\ snapExec' = snapExec
     \/ \E toAmount \in QuoteAmounts(call.stepIndex) :
          /\ call' = [call EXCEPT !.pc = "returned"]
          /\ preparedTx' = [type |-> "lifi-swap",
                            stepId |-> currentWorkflow.steps[call.stepIndex + 1].id,
                            chainId |-> currentWorkflow.steps[call.stepIndex + 1].fromChain,
                            data |-> <<"quote", 0, call.stepIndex>>]
          /\ snapExec' = IF call.s # Null
                         THEN QuotedExec(call.s, call.stepIndex, toAmount)
                         ELSE snapExec
  /\ UNCHANGED <<currentWorkflow, userNamehash, siteVars, runs, ens, ui, clock, histVars>>

\* decodeString was called with a result of eth_call
DecodeCalls ==
  { [op |-> "decodeString", pc |-> "called", hex |-> h, result |-> Null] :
      h \in DecodeInputs }

InitCalls ==
  /\ call \in DecodeCalls \cup ReadCalls \cup SaveCalls \cup LoadCalls
                               \cup MulticallCalls \cup SetTextCalls
                               \cup SerializeCalls \cup AmountCalls
                               \cup NamehashCalls
                               \cup SlugifyCalls
                               \cup ImportCalls \cup RestoreCalls
                               \cup QuoteCalls
  /\ AtRest

NextCalls ==
  \/ CallDecodeString
  \/ ReadRegistryResponse
  \/ ReadResolverResponse
  \/ ReadDefaultResponse
  \/ SavePrepare
  \/ SaveSubmit
  \/ SaveAgain
  \/ LoadFirstRead
  \/ LoadLegacyRead
  \/ CallEncodeMulticall
  \/ CallEncodeSetText
  \/ CallSerializeRoundTrip
  \/ CallAmountRoundTrip
  \/ CallComputeNamehash
  \/ CallSlugify
  \/ CallImportWorkflow
  \/ SyncRestore
  \/ CallPrepareStepQuote
  \/ CallQuoteResponse

SpecCalls == InitCalls /\ [][NextCalls]_vars

\* ---------------------------------------------------------------------
\* C30: decodeString returns null for a zero-length string and for an
\* input shorter than the words and bytes its offset and length words
\* require; otherwise it returns exactly the bytes the length word counts,
\* read right after the length word the offset word points to.
C30_DecodeString ==
  (call.op = "decodeString" /\ call.pc = "returned") =>
    LET h == call.hex
        offset == IF Len(h) >= WordBytes THEN ParseInt(SubSeq(h, 1, WordBytes)) ELSE 0
        hasLength == Len(h) >= WordBytes /\ Len(h) >= offset + WordBytes
        length == IF hasLength
                  THEN ParseInt(SubSeq(h, offset + 1, offset + WordBytes)) ELSE 0
        hasData == hasLength /\ Len(h) >= offset + WordBytes + length
    IN IF ~hasData \/ length = 0
       THEN call.result = Null
       ELSE call.result =
              [text |-> SubSeq(h, offset + WordBytes + 1, offset + WordBytes + length)]

\* ---------------------------------------------------------------------
\* the registered resolver of a read, in lower case, or <<>> for none
Registered(c) ==
  IF c.resolverResult \in {RegistryWord(ToLowerCase(ENS_PUBLIC_RESOLVER)),
                           RegistryWord(ENS_PUBLIC_RESOLVER)}
  THEN ToLowerCase(ENS_PUBLIC_RESOLVER)
  ELSE IF c.resolverResult = RegistryWord(OtherResolver) THEN OtherResolver
  ELSE <<>>

\* the text the world holds at a resolver given in lower case
HeldAt(c, resolver) ==
  IF resolver = ToLowerCase(ENS_PUBLIC_RESOLVER) THEN c.public.text ELSE c.other.text

\* C21: readEnsText returns the registered resolver's value when a
\* resolver is registered and its read is not empty; otherwise the public
\* resolver's value when no resolver is registered or the registered one is
\* not the public one; and null when every read it made was empty.
C21_ReadEnsText ==
  (call.op = "readEnsText" /\ call.pc = "returned") =>
    LET reg == Registered(call)
        pub == ToLowerCase(ENS_PUBLIC_RESOLVER)
    IN IF reg # <<>> /\ HeldAt(call, reg) # <<>>
       THEN call.result = [text |-> HeldAt(call, reg)]
       ELSE IF (reg = <<>> \/ reg # pub) /\ HeldAt(call, pub) # <<>>
       THEN call.result = [text |-> HeldAt(call, pub)]
       ELSE call.result = Null

\* another resolver is registered and holds nothing; the public resolver's
\* text was returned
C21_Witness ==
  /\ call.op = "readEnsText" /\ call.pc = "returned"
  /\ Registered(call) = OtherResolver
  /\ call.other.text = <<>>
  /\ call.result = [text |-> Text(1)]
  /\ Len(call.reads) = 3

\* C22: one readEnsText asks the registry first and then each resolver at
\* most once, addresses compared without regard to case: the public
\* resolver is not asked after the registered resolver returned a value,
\* nor a second time when it is the registered resolver.
C22_ReadsOnce ==
  call.op = "readEnsText" =>
    /\ call.reads[1] = "registry"
    /\ \A i, j \in 2..Len(call.reads) :
         i < j => ToLowerCase(call.reads[i]) # ToLowerCase(call.reads[j])
    /\ (Len(call.reads) >= 2 /\ Registered(call) # <<>>) =>
         ToLowerCase(call.reads[2]) = Registered(call)
    /\ (call.pc = "returned" /\ Registered(call) # <<>>
          /\ HeldAt(call, Registered(call)) # <<>>) => Len(call.reads) = 2

\* the registry names the public resolver as the source writes it, the
\* resolver holds nothing: null after one read of it
C22_Witness ==
  /\ call.op = "readEnsText" /\ call.pc = "returned"
  /\ call.resolverResult = RegistryWord(ENS_PUBLIC_RESOLVER)
  /\ call.public.text = <<>>
  /\ call.result = Null
  /\ Len(call.reads) = 2

\* ---------------------------------------------------------------------
\* C23: an error of the read of the existing manifest during a save to ENS
\* fails the save: no write transaction is prepared or sent from a manifest
\* that could not be read.
C23_ManifestReadFails ==
  (call.op \in {"saveToEns", "handleSaveToEns"} /\ call.read = "error") =>
    /\ preparedTx = Null
    /\ \A x \in sent : x.n # call.saves

\* ---------------------------------------------------------------------
\* C24: adding an entry to a manifest of unique slugs keeps the slugs
\* unique: an entry of the same slug is replaced where it stands, with the
\* new name, and an entry of a new slug goes to the end; so every manifest
\* a sequence of saves produces holds each slug once.
UniqueSlugs(entries) ==
  \A j, k \in DOMAIN entries : entries[j].slug = entries[k].slug => j = k

AddedTo(before, after, slug, name) ==
  IF \E k \in DOMAIN before : before[k].slug = slug
  THEN /\ Len(after) = Len(before)
       /\ \A k \in DOMAIN before :
            after[k] = IF before[k].slug = slug
                       THEN [slug |-> slug, name |-> name] ELSE before[k]
  ELSE after = Append(before, [slug |-> slug, name |-> name])

SavedSlug == IF call.slug # <<>> THEN call.slug ELSE slugify(call.name)

C24_SlugsStayUnique ==
  [][ /\ (call.op \in {"saveToEns", "handleSaveToEns"} /\ call.pc = "manifest"
          /\ call'.pc = "prepared" /\ call'.read = "ok" /\ call.held # Null)
        => LET before == deserializeManifest(call.held)
               after == deserializeManifest(preparedTx'.data[2].value)
           IN UniqueSlugs(before) =>
                UniqueSlugs(after) /\ AddedTo(before, after, SavedSlug, call.name)
      /\ (call.op = "saveToEns" /\ call.pc = "prepared" /\ call'.pc = "saved")
        => (UniqueSlugs(call.local) =>
              /\ UniqueSlugs(call'.local)
              /\ AddedTo(call.local, call'.local, SavedSlug, call.name))
      /\ (call'.op \in {"saveToEns", "handleSaveToEns"} /\ call'.pc = "saved")
        => UniqueSlugs(deserializeManifest(call'.held))
    ]_vars

\* the second save replaced the entry "a-b" of a manifest of two entries
\* where it stood
C24_Witness ==
  /\ call.op \in {"saveToEns", "handleSaveToEns"} /\ call.pc = "saved"
  /\ call.saves = MaxSaves /\ call.name = <<"a", "!", "b">>
  /\ Len(call.held.rows) = 2
  /\ call.held.rows[1] = << <<"a", "-", "b">>, <<"a", "!", "b">> >>
  /\ call.held.rows[2][1] = <<"x">>

\* ---------------------------------------------------------------------
\* C25: no prepared write transaction sets the legacy key
\* com.surecast.workflow: the workflow is written under
\* com.surecast.workflow.<slug> and the manifest under
\* com.surecast.workflows.  The legacy key is only read, by loadFromEns,
\* when no slug is given or after the slug key yielded nothing.
WritesSlugKeys(tx) ==
  LET prefix == ENS_WORKFLOW_KEY_LEGACY \o <<".">>
  IN /\ Len(tx.data) = 2
     /\ \A k \in DOMAIN tx.data : tx.data[k].key # ENS_WORKFLOW_KEY_LEGACY
     /\ Len(tx.data[1].key) >= Len(prefix)
     /\ SubSeq(tx.data[1].key, 1, Len(prefix)) = prefix
     /\ SubSeq(tx.data[1].key, Len(prefix) + 1, Len(tx.data[1].key)) = SavedSlug
     /\ tx.data[2].key = ENS_MANIFEST_KEY

C25_LegacyKeyOnlyRead ==
  /\ (call.op \in {"saveToEns", "handleSaveToEns"}) =>
       /\ preparedTx # Null => WritesSlugKeys(preparedTx)
       /\ \A x \in sent : x.n = call.saves => WritesSlugKeys(x.tx)
       /\ \A x \in sent : \A k \in DOMAIN x.tx.data :
            x.tx.data[k].key # ENS_WORKFLOW_KEY_LEGACY
       /\ \A k \in DOMAIN call.reads : call.reads[k] # ENS_WORKFLOW_KEY_LEGACY
  /\ (call.op = "loadFromEns") =>
       /\ preparedTx = call.slot /\ sent = {}
       /\ \A k \in DOMAIN call.reads :
            call.reads[k] = ENS_WORKFLOW_KEY_LEGACY =>
              \/ call.slug = <<>> /\ k = 1
              \/ call.slug # <<>> /\ k = 2 /\ call.first = "nothing"

\* a workflow whose name has the empty slug is being saved: its key is the
\* prefix and a dot
C25_Witness ==
  /\ call.op \in {"saveToEns", "handleSaveToEns"} /\ call.pc = "prepared"
  /\ SavedSlug = <<>>
  /\ preparedTx # Null
  /\ preparedTx.data[1].key = ENS_WORKFLOW_KEY_LEGACY \o <<".">>

\* ---------------------------------------------------------------------
\* C26: for every list of one, two or more call payloads, reading the
\* output of encodeMulticall by the ABI layout of multicall(bytes[]) gives
\* back the payloads, in their order.
\* The word at byte position at of the parameters, as a number
WordAt(params, at) ==
  IF at < 0 \/ at + WordBytes > Len(params) THEN -1
  ELSE ParseInt(SubSeq(params, at + 1, at + WordBytes))

\* bytes[] read from the calldata of multicall(bytes[]): the first word
\* points at the array, the array is its length and one offset per item
\* relative to the word after the length, an item is its length and bytes
AbiBytesArray(calldata) ==
  LET params == SubSeq(calldata, 5, Len(calldata))
      array == WordAt(params, 0)
      count == WordAt(params, array)
      items == array + WordBytes
  IN IF SubSeq(calldata, 1, 4) # MulticallSelector \/ array < 0 \/ count < 0
     THEN Null
     ELSE [k \in 1..count |->
             LET item == items + WordAt(params, items + WordBytes * (k - 1))
                 size == WordAt(params, item)
             IN IF size < 0 \/ item + WordBytes + size > Len(params) THEN Null
                ELSE SubSeq(params, item + WordBytes + 1, item + WordBytes + size)]

C26_MulticallRoundTrip ==
  (call.op = "encodeMulticall" /\ call.pc = "returned") =>
    /\ call.result.x
    /\ AbiBytesArray(call.result.bytes) = [k \in DOMAIN call.calls |-> call.calls[k].bytes]

\* three payloads: an empty one, one of a word and a byte, one of a byte
C26_Witness ==
  /\ call.op = "encodeMulticall" /\ call.pc = "returned"
  /\ Len(call.calls) = MaxCalls
  /\ Len(call.calls[1].bytes) = 0 /\ Len(call.calls[2].bytes) > WordBytes
  /\ Len(call.calls[3].bytes) = 1
  /\ call.calls[2].bytes # <<>> /\ ~call.calls[1].x

\* ---------------------------------------------------------------------
\* C27: in the output of encodeSetText the offset words of the key and of
\* the value, counted from the start of the parameters after the selector,
\* point at the length words of the two blocks, and a block is a length
\* word equal to the UTF-8 byte length of the string, then those bytes,
\* then zeros up to a word boundary; for every key and value.
\* UTF-8 of a string without surrogates
RECURSIVE Utf8(_)
Utf8(str) ==
  IF str = <<>> THEN <<>>
  ELSE LET c == Head(str)
       IN (IF c < 128 THEN <<c>>
           ELSE IF c < 2048 THEN <<192 + (c \div 64), 128 + (c % 64)>>
           ELSE <<224 + (c \div 4096), 128 + ((c \div 64) % 64), 128 + (c % 64)>>)
          \o Utf8(Tail(str))

RECURSIVE Digits16(_)
Digits16(bytes) ==
  IF bytes = <<>> THEN <<>>
  ELSE <<Head(bytes) \div 16, Head(bytes) % 16>> \o Digits16(Tail(bytes))

RECURSIVE Number16(_)
Number16(digits) ==
  IF digits = <<>> THEN 0
  ELSE Number16(SubSeq(digits, 1, Len(digits) - 1)) * 16 + digits[Len(digits)]

\* the word at byte position at of the parameters, -1 when there is none
Word16(params, at) ==
  IF 2 * (at + WordBytes) > Len(params) THEN -1
  ELSE Number16(SubSeq(params, 2 * at + 1, 2 * (at + WordBytes)))

\* the digits from byte position at up to position end (in digits) are the
\* block of str
IsBlock(params, at, end, str) ==
  LET bytes == Utf8(str)
      data == 2 * (at + WordBytes)
  IN /\ at >= 0 /\ data <= end /\ end <= Len(params)
     /\ Word16(params, at) = Len(bytes)
     /\ (end - 2 * at) % (2 * WordBytes) = 0
     /\ data + 2 * Len(bytes) <= end
     /\ SubSeq(params, data + 1, data + 2 * Len(bytes)) = Digits16(bytes)
     /\ \A k \in (data + 2 * Len(bytes) + 1)..end : params[k] = 0

SetTextLayout(hex, key, value) ==
  LET params == SubSeq(hex, Len(SetTextSelector) + 1, Len(hex))
      keyAt == Word16(params, WordBytes)
      valueAt == Word16(params, 2 * WordBytes)
  IN /\ SubSeq(hex, 1, Len(SetTextSelector)) = SetTextSelector
     /\ SubSeq(params, 1, 2 * WordBytes) = NodeHex
     /\ keyAt = 3 * WordBytes /\ valueAt > keyAt
     /\ IsBlock(params, keyAt, 2 * valueAt, key)
     /\ IsBlock(params, valueAt, Len(params), value)

C27_SetTextLayout ==
  (call.op = "encodeSetText" /\ call.pc = "returned") =>
    SetTextLayout(call.result, call.key, call.value)

\* ---------------------------------------------------------------------
\* C28: for every workflow of zero, one or many steps, steps with the
\* chain-from-previous flag included, deserializeWorkflow of
\* serializeWorkflow of it has the same name, the same steps in the same
\* order with the same types, and the same value of every populated config
\* field: protocol, tokens, chains, amount and flag.
SameConfig(s, r) ==
  /\ s.fromToken # "" => r.fromToken = s.fromToken
  /\ s.toToken # "" => r.toToken = s.toToken
  /\ s.fromChain # 0 => r.fromChain = s.fromChain
  /\ s.toChain # 0 => r.toChain = s.toChain
  /\ s.amount # NoAmount => r.amount = s.amount
  /\ s.useAllFromPrevious => r.useAllFromPrevious

SameProtocol(s, r) ==
  s.protocol # "" => ("protocol" \in DOMAIN r /\ r.protocol = s.protocol)

C28_SerializeRoundTrip ==
  (call.op = "serializeWorkflow" /\ call.pc = "returned") =>
    /\ call.result.name = call.wf.name
    /\ Len(call.result.steps) = Len(call.wf.steps)
    /\ \A k \in DOMAIN call.wf.steps :
         /\ call.result.steps[k].type = call.wf.steps[k].type
         /\ SameConfig(call.wf.steps[k], call.result.steps[k])
         /\ SameProtocol(call.wf.steps[k], call.result.steps[k])

\* ---------------------------------------------------------------------
\* C29: for every valid decimal string s and decimal count d,
\* formatTokenAmount(parseAmount(s, d), d) is numerically equal to s, up
\* to the trimming of trailing zeros.
\* the number a decimal string denotes: its integer digits without leading
\* zeros and its fraction digits without trailing zeros
Numeric(str) ==
  <<StripLeadingZeros(SplitFirst(str)), StripTrailingZeros(SplitSecond(str))>>

C29_AmountRoundTrip ==
  (call.op = "formatTokenAmount" /\ call.pc = "returned") =>
    Numeric(call.result) = Numeric(call.s)

\* ---------------------------------------------------------------------
\* C31: computeNamehash of the empty name is the all-zero value of 32
\* bytes; for another name the labels are folded from the rightmost to the
\* leftmost, from the zero value, with node := H(node || H(label)); so two
\* names of the same distinct labels in another order get different
\* identifiers.
\* The node of a list of labels, leftmost first, by the recursion of ENS
RECURSIVE NameNode(_)
NameNode(labels) ==
  IF labels = <<>> THEN ZeroNode
  ELSE KeccakNode(NameNode(Tail(labels)), KeccakLabel(Head(labels)))

DistinctLabels(labels) ==
  \A j, k \in DOMAIN labels : labels[j] = labels[k] => j = k

Reordered(labels, others) ==
  /\ DistinctLabels(labels) /\ DistinctLabels(others)
  /\ {labels[k] : k \in DOMAIN labels} = {others[k] : k \in DOMAIN others}
  /\ labels # others

C31_Namehash ==
  (call.op = "computeNamehash" /\ call.pc = "returned") =>
    /\ call.name = <<>> => (call.result = ZeroNode /\ call.plain = ZeroNode)
    /\ call.name # <<>> =>
         /\ call.result = NameNode(Split(ToLowerCase(call.name)))
         /\ call.plain = NameNode(Split(call.name))
    /\ (call.name # <<>> /\ call.other # <<>>) =>
         /\ Reordered(Split(ToLowerCase(call.name)), Split(ToLowerCase(call.other)))
              => call.result # call.resultOther
         /\ Reordered(Split(call.name), Split(call.other))
              => call.plain # call.plainOther

\* a.b.c and b.a.c were hashed
C31_Witness ==
  /\ call.op = "computeNamehash" /\ call.pc = "returned"
  /\ call.name = <<"a", ".", "b", ".", "c">> /\ call.other = <<"b", ".", "a", ".", "c">>
  /\ call.result # call.resultOther
  /\ call.result.labelHash = KeccakLabel(<<"a">>)

\* ---------------------------------------------------------------------
\* C32: slugify(name) has at most 32 characters, all of a-z, 0-9 and the
\* hyphen, no two hyphens side by side and no hyphen at either end, and
\* slugify(slugify(name)) = slugify(name), for every name.
SlugChars ==
  {"a", "b", "c", "d", "e", "f", "g", "h", "i", "j", "k", "l", "m", "n", "o", "p",
   "q", "r", "s", "t", "u", "v", "w", "x", "y", "z", "0", "1", "2", "3", "4", "5",
   "6", "7", "8", "9", "-"}

WellFormedSlug(slug) ==
  /\ Len(slug) <= SlugLength
  /\ \A k \in DOMAIN slug : slug[k] \in SlugChars
  /\ \A k \in 1..(Len(slug) - 1) : ~(slug[k] = "-" /\ slug[k + 1] = "-")
  /\ slug # <<>> => (slug[1] # "-" /\ slug[Len(slug)] # "-")

C32_Slugify ==
  (call.op = "slugify" /\ call.pc = "returned") =>
    WellFormedSlug(call.result) /\ call.again = call.result

\* ---------------------------------------------------------------------
\* C33: switchChain requests wallet_addEthereumChain at most once per
\* switch, only after the switch request failed with the code 4902 of an
\* unknown network and only for a chain with a known configuration; any
\* other failure of the switch, and a failure of the add request, is raised
\* to the run, which marks the step error and halts as for a failed quote.
AddOnlyForUnknownChain(r) ==
  /\ runs[r].addRequests <= 1
  /\ runs[r].pc = "add_wait" <=> Request(r, "add") \in outstanding
  /\ Request(r, "add") \in outstanding =>
       /\ runs[r].switchError = "unknown"
       /\ runs[r].txData.chainId \in CHAIN_CONFIGS
       /\ runs[r].addRequests = 1
       /\ Request(r, "switch") \notin outstanding
  /\ runs[r].addRequests = 1 =>
       runs[r].switchError = "unknown" /\ runs[r].txData.chainId \in CHAIN_CONFIGS

SwitchFailureRaised(r) ==
  (runs[r].pc = "halt" /\ runs[r].switchError # "none") =>
    /\ runs[r].switchError = "unknown" /\ runs[r].txData.chainId \in CHAIN_CONFIGS
         => runs[r].addRequests = 1
    /\ StatusOf(snapExec, runs[r].i) = "error"
    /\ snapExec.steps[runs[r].i + 1].error = runs[r].msg
    /\ \A x \in outstanding : x.run # r

SwitchFailureHalts(r) ==
  (runs[r].pc = "halt" /\ runs[r].switchError # "none" /\ runs'[r] # runs[r]) =>
    /\ runs'[r].pc = "done" /\ runs'[r].outcome = "halted"
    /\ execStatus' = "paused"
    /\ HaltedAt(execution', runs[r].i, runs[r].msg)
    /\ HaltedAt(snapExec', runs[r].i, runs[r].msg)
    /\ \A x \in requested' : x.run = r => x.step <= runs[r].i

C33_SwitchChain ==
  /\ [](\A r \in Runs : AddOnlyForUnknownChain(r) /\ SwitchFailureRaised(r))
  /\ [][\A r \in Runs : SwitchFailureHalts(r)]_vars

\* the add request that followed an unknown network failed as well, and
\* the run is about to halt
C33_Witness ==
  \E r \in Runs :
    /\ runs[r].pc = "halt" /\ runs[r].switchError = "unknown"
    /\ runs[r].addRequests = 1 /\ runs[r].i = 1

\* ---------------------------------------------------------------------
\* C34: a write of the state that sets one field (writeState with the
\* state a UI handler was given earlier, or the write by prepareStepQuote
\* of the execution record it read before its quote request) discards no
\* update of another field that completed in between: the fields the write
\* does not set are, after it, what they were just before it.
\* writeState(state, {preparedTx}) of handleGetQuote and handleSaveToEns
HandlerWriteKeeps ==
  (ui.pc \in {"quote_wait", "read_wait"} /\ ui'.pc = "idle") =>
    /\ currentWorkflow' = currentWorkflow
    /\ snapExec' = snapExec
    /\ userNamehash' = userNamehash

\* the two setState of prepareStepQuote: the slot, and step i of the record
QuoteWriteKeeps(r) ==
  (runs[r].pc = "quote_wait" /\ runs'[r].pc = "quoted") =>
    /\ currentWorkflow' = currentWorkflow
    /\ userNamehash' = userNamehash
    /\ snapExec = Null => snapExec' = Null
    /\ snapExec # Null =>
         /\ snapExec' # Null
         /\ Len(snapExec'.steps) = Len(snapExec.steps)
         /\ LET i == runs[r].i
            IN IF HasStep(snapExec, i)
               THEN [snapExec' EXCEPT !.steps[i + 1] =
                       [@ EXCEPT !.status = snapExec.steps[i + 1].status,
                                 !.quotedOutput = snapExec.steps[i + 1].quotedOutput]]
                      = snapExec
               ELSE snapExec' = snapExec

C35_RestoreKeepsWorkflow ==
  (call.op = "syncWithSnap" /\ call.pc = "restored") =>
    /\ currentWorkflow # Null
    /\ currentWorkflow.name = call.local.name
    /\ Len(currentWorkflow.steps) = Len(call.local.steps)
    /\ \A k \in DOMAIN call.local.steps :
         /\ currentWorkflow.steps[k].type = call.local.steps[k].type
         /\ SameConfig(call.local.steps[k], currentWorkflow.steps[k])

\* ---------------------------------------------------------------------
\* C36: a save to ENS drops no workflow from the manifest on chain: the
\* manifest a save writes holds every slug of the manifest that was on
\* chain before the save, and the slug that is saved.
SlugsOf(manifest) ==
  IF manifest = Null \/ ~manifest.ok THEN {}
  ELSE {manifest.rows[k][1] : k \in DOMAIN manifest.rows}

C36_SaveKeepsManifest ==
  (call.op \in {"saveToEns", "handleSaveToEns"} /\ call.pc = "prepared"
     /\ preparedTx # Null) =>
    SlugsOf(preparedTx.data[2].value) = SlugsOf(call.held) \cup {SavedSlug}

\* ---------------------------------------------------------------------
\* C37: whenever a run or a retry has returned without a reset, the record
\* the site holds and the record of the snap agree, for every step, on the
\* status and the transaction hash, and agree on the overall status.
RecordsAgree(site, snap) ==
  /\ site # Null /\ snap # Null
  /\ site.status = snap.status
  /\ Len(site.steps) = Len(snap.steps)
  /\ \A k \in DOMAIN site.steps :
       /\ site.steps[k].status = snap.steps[k].status
       /\ site.steps[k].txHash = snap.steps[k].txHash

\* runSteps returns to executeWorkflow or retryFromStep: the loop ended,
\* or a step failed
RunReturns(r) ==
  /\ runs[r].pc \notin {"idle", "done"}
  /\ runs'[r].pc = "done" /\ runs'[r].outcome \in {"completed", "halted"}

C37_RecordsAgree ==
  [][\A r \in Runs :
       (RunReturns(r) /\ ~runs[r].cancelled /\ ~cancelledRef') =>
         RecordsAgree(execution', snapExec')]_vars

\* a retry returned after its step failed again
C37_Witness ==
  \E r \in Runs :
    /\ runs[r].pc = "done" /\ runs[r].kind = "retry" /\ runs[r].outcome = "halted"
    /\ RecordsAgree(execution, snapExec)
    /\ execution.status = "failed"

\* ---------------------------------------------------------------------
\* C38: in the execution record of the snap a step whose status is pending
\* or success carries no error message: the error a failed attempt recorded
\* is cleared when the step is reset for retry.
C38_NoErrorOnPendingStep ==
  snapExec # Null =>
    \A k \in DOMAIN snapExec.steps :
      snapExec.steps[k].status \in {"pending", "success"} =>
        snapExec.steps[k].error = NoMsg

\* ---------------------------------------------------------------------
\* C39: when prepareStepQuote fails (no workflow, missing step or token,
\* chaining error, or the quote request is rejected) the prepared
\* transaction slot and the execution record are exactly as they were
\* before the call.
C39_FailedQuoteWritesNothing ==
  (call.op = "prepareStepQuote" /\ call.pc = "threw") =>
    /\ preparedTx = call.slot
    /\ snapExec = call.exec

\* the quote request was rejected while the snap held a transaction and a
\* record
C39_Witness ==
  /\ call.op = "prepareStepQuote" /\ call.pc = "threw"
  /\ call.s # Null /\ call.slot = HeldTx
  /\ preparedTx = HeldTx /\ snapExec = call.exec

\* ---------------------------------------------------------------------
\* C40: importWorkflow and loadFromEns replace the current workflow
\* wholesale, and only on success; when the record is missing or cannot be
\* parsed they fail and leave the current workflow, the execution record
\* and the prepared transaction slot unchanged.
\* the text loadFromEns found: under the key it read first, else the legacy
LoadedText ==
  IF call.slug # <<>> /\ call.atSlug # <<>> THEN call.atSlug ELSE call.atLegacy

ImportFailedKeepsAll ==
  (call.op \in {"importWorkflow", "loadFromEns"} /\ call.pc = "threw") =>
    /\ currentWorkflow = [id |-> 1, steps |-> <<FixedStep(1)>>]
    /\ snapExec = call.exec
    /\ preparedTx = call.slot

\* a workflow without the identifiers generateId gives it and its steps
Content(wf) ==
  [wf EXCEPT !.id = 0, !.steps = [k \in DOMAIN @ |-> [@[k] EXCEPT !.id = 0]]]

ImportReplacesWholesale ==
  /\ (call.op = "importWorkflow" /\ call.pc = "returned") =>
       Content(currentWorkflow) = Content(deserializeJson(call.text))
  /\ (call.op = "loadFromEns" /\ call.pc = "returned") =>
       Content(currentWorkflow) = Content(deserializeWorkflow(LoadedText))

C40_ImportAllOrNothing == ImportFailedKeepsAll /\ ImportReplacesWholesale

\* the text under the slug key is not JSON: loadFromEns failed with the
\* snap's workflow, record and slot in place
C40_Witness ==
  /\ call.op = "loadFromEns" /\ call.pc = "threw"
  /\ call.slug # <<>> /\ call.atSlug = NotJson
  /\ currentWorkflow # Null /\ snapExec = HeldExec /\ preparedTx = HeldTx

====
